---- MODULE Spec2Model ----
(***************************************************************************)
(* Model of the pricing engine of ce_pricing_ksa: calculatePricing         *)
(* (services/pricingEngine, kept here as src/unnamed/part_007 lines        *)
(* 1-410) with the catalog of src/constants.ts.  Lines 412-694 of that     *)
(* file hold an earlier variant of the engine (no renewal paths, no         *)
(* rounding); it is not modelled.                                           *)
(*                                                                         *)
(* Numbers.  The engine computes on IEEE doubles.  The model computes on   *)
(* exact rationals, so every identity below is an identity of the          *)
(* arithmetic the code writes down, free of binary rounding error.  A      *)
(* number is kept as a mixed fraction [w, n, d] = w + n/d with w an        *)
(* integer, 0 <= n < d and n/d in lowest terms (d = 1 when n = 0), which   *)
(* is a canonical form: two numbers are equal iff their records are.       *)
(***************************************************************************)
EXTENDS Integers, Sequences, FiniteSets, TLC

(***************************************************************************)
(* Exact rational arithmetic, with the non-finite values of the JavaScript *)
(* number type: a record with d = 0 is Infinity (n = 1), -Infinity         *)
(* (n = -1) or NaN (n = 0)                                                  *)
(***************************************************************************)
Abs(x) == IF x < 0 THEN -x ELSE x

RECURSIVE GCD(_, _)
GCD(a, b) == IF b = 0 THEN a ELSE GCD(b, a % b)

LCM(a, b) == (a \div GCD(a, b)) * b

\* w + n/d for any integers w, n and d > 0, in canonical form
Norm(w, n, d) ==
  LET r == n % d
      g == GCD(r, d)
  IN  [w |-> w + (n \div d), n |-> r \div g, d |-> d \div g]

\* the fraction n/d (d # 0)
R(n, d) == IF d < 0 THEN Norm(0, -n, -d) ELSE Norm(0, n, d)

RInt(k) == [w |-> k, n |-> 0, d |-> 1]

RZero == RInt(0)

\* Infinity (s = 1), -Infinity (s = -1), NaN (s = 0)
RInf(s) == [w |-> 0, n |-> s, d |-> 0]

IsFinite(a) == a.d # 0

IsNaN(a) == a.d = 0 /\ a.n = 0

RAdd(a, b) ==
  IF a.d # 0 /\ b.d # 0
  THEN LET l == LCM(a.d, b.d)
       IN  Norm(a.w + b.w, a.n * (l \div a.d) + b.n * (l \div b.d), l)
  ELSE IF a.d # 0 THEN b
  ELSE IF b.d # 0 \/ a.n = b.n THEN a
  ELSE RInf(0)

RNeg(a) == IF a.d = 0 THEN RInf(-a.n) ELSE Norm(-a.w, -a.n, a.d)

RSub(a, b) == RAdd(a, RNeg(b))

\* x * (p/q) for integers p and q > 0, cancelling before multiplying
MulFrac(x, p, q) ==
  LET g1 == GCD(x.n, q)
      g2 == GCD(Abs(p), x.d)
  IN  RAdd(Norm(0, x.w * p, q),
           Norm(0, (x.n \div g1) * (p \div g2), (x.d \div g2) * (q \div g1)))

\* numerator of b as an improper fraction over b.d
Numer(b) == b.w * b.d + b.n

\* 1, -1 or 0: the sign of a; 0 for NaN as well
RSign(a) ==
  IF a.d = 0 THEN a.n
  ELSE IF Numer(a) > 0 THEN 1 ELSE IF Numer(a) < 0 THEN -1 ELSE 0

\* Infinity * 0 is NaN
RMul(a, b) ==
  IF a.d # 0 /\ b.d # 0
  THEN (IF Abs(a.w) >= Abs(b.w) THEN MulFrac(a, Numer(b), b.d)
                                ELSE MulFrac(b, Numer(a), a.d))
  ELSE RInf(RSign(a) * RSign(b))

\* a / b; x / 0 is Infinity, -Infinity or (0 / 0) NaN, x / Infinity is 0
RDiv(a, b) ==
  IF a.d # 0 /\ b.d # 0
  THEN (IF Numer(b) = 0 THEN RInf(RSign(a))
        ELSE IF Numer(b) < 0 THEN MulFrac(a, -b.d, -Numer(b))
        ELSE MulFrac(a, b.d, Numer(b)))
  ELSE IF b.d # 0 THEN (IF Numer(b) = 0 THEN a ELSE RInf(a.n * RSign(b)))
  ELSE IF a.d # 0 /\ b.n # 0 THEN RZero
  ELSE RInf(0)

\* a < b; false when either is NaN
RLt(a, b) ==
  IF a.d # 0 /\ b.d # 0
  THEN a.w < b.w \/ (a.w = b.w /\ a.n * b.d < b.n * a.d)
  ELSE /\ ~IsNaN(a) /\ ~IsNaN(b)
       /\ (IF a.d = 0 THEN a.n ELSE 0) < (IF b.d = 0 THEN b.n ELSE 0)

\* a <= b; false when either is NaN
RLe(a, b) == ~IsNaN(a) /\ ~IsNaN(b) /\ ~RLt(b, a)

\* Math.max
RMax(a, b) == IF IsNaN(a) THEN a ELSE IF IsNaN(b) THEN b ELSE IF RLt(a, b) THEN b ELSE a

\* Math.ceil
RCeil(a) == IF a.d = 0 THEN a ELSE RInt(IF a.n = 0 THEN a.w ELSE a.w + 1)

\* Number.prototype.toFixed(0): nearest integer, the larger one on a tie
RToFixed0(a) == IF 2 * a.n >= a.d THEN a.w + 1 ELSE a.w

RECURSIVE RSum(_)
RSum(s) == IF s = <<>> THEN RZero ELSE RAdd(RSum(SubSeq(s, 1, Len(s) - 1)), s[Len(s)])

\* (1 + rate / 100) for a rate in percent
OnePlusPct(rate) == R(100 + rate, 100)

(***************************************************************************)
(* IEEE-754 binary64 arithmetic (the JavaScript number type) on numbers    *)
(* >= 0, for the steps whose result depends on the rounding of every       *)
(* operation.  A number is m * 2^e, m a natural written as its bits, most  *)
(* significant first, without leading zeros and (for m > 0) ending in 1.   *)
(* Each operation returns the representable number nearest to the exact    *)
(* result, ties to even.  The loops run by halving their range.            *)
(***************************************************************************)
\* b without its leading zeros
BStrip(b) ==
  IF \A k \in 1..Len(b) : b[k] = 0 THEN <<>>
  ELSE SubSeq(b, CHOOSE k \in 1..Len(b) : b[k] = 1 /\ \A j \in 1..(k - 1) : b[j] = 0, Len(b))

RECURSIVE BFromInt(_)
BFromInt(k) == IF k = 0 THEN <<>> ELSE Append(BFromInt(k \div 2), k % 2)

RECURSIVE BToInt(_)
BToInt(b) == IF b = <<>> THEN 0 ELSE 2 * BToInt(SubSeq(b, 1, Len(b) - 1)) + b[Len(b)]

\* a < b for naturals without leading zeros
BLt(a, b) ==
  \/ Len(a) < Len(b)
  \/ /\ Len(a) = Len(b)
     /\ \E k \in 1..Len(a) : a[k] < b[k] /\ \A j \in 1..(k - 1) : a[j] = b[j]

\* bit j of b counted from the least significant one, 0 beyond its length
BBit(b, j) == IF j <= Len(b) THEN b[Len(b) + 1 - j] ELSE 0

BSubStep(a, b, j, st) ==
  CHOOSE r \in { [c |-> IF d < 0 THEN 1 ELSE 0, acc |-> <<(d + 2) % 2>> \o st.acc] :
                   d \in {BBit(a, j) - BBit(b, j) - st.c} } : TRUE

RECURSIVE BSubRange(_, _, _, _, _)
BSubRange(a, b, lo, hi, st) ==
  IF lo > hi THEN st
  ELSE IF lo = hi THEN BSubStep(a, b, lo, st)
  ELSE CHOOSE r \in { BSubRange(a, b, (lo + hi) \div 2 + 1, hi, s) :
                        s \in {BSubRange(a, b, lo, (lo + hi) \div 2, st)} } : TRUE

\* a - b for a >= b
BSub(a, b) == BStrip(BSubRange(a, b, 1, Len(a), [c |-> 0, acc |-> <<>>]).acc)

BAddStep(a, b, j, st) ==
  CHOOSE r \in { [c |-> s \div 2, acc |-> <<s % 2>> \o st.acc] :
                   s \in {BBit(a, j) + BBit(b, j) + st.c} } : TRUE

RECURSIVE BAddRange(_, _, _, _, _)
BAddRange(a, b, lo, hi, st) ==
  IF lo > hi THEN st
  ELSE IF lo = hi THEN BAddStep(a, b, lo, st)
  ELSE CHOOSE r \in { BAddRange(a, b, (lo + hi) \div 2 + 1, hi, s) :
                        s \in {BAddRange(a, b, lo, (lo + hi) \div 2, st)} } : TRUE

BAdd(a, b) ==
  BStrip(BAddRange(a, b, 1, (IF Len(a) > Len(b) THEN Len(a) ELSE Len(b)) + 1,
                   [c |-> 0, acc |-> <<>>]).acc)

\* 2 * acc
BDouble(acc) == IF acc = <<>> THEN <<>> ELSE Append(acc, 0)

RECURSIVE BMulRange(_, _, _, _, _)
BMulRange(a, b, lo, hi, acc) ==
  IF lo > hi THEN acc
  ELSE IF lo = hi THEN (IF b[lo] = 1 THEN BAdd(BDouble(acc), a) ELSE BDouble(acc))
  ELSE CHOOSE r \in { BMulRange(a, b, (lo + hi) \div 2 + 1, hi, s) :
                        s \in {BMulRange(a, b, lo, (lo + hi) \div 2, acc)} } : TRUE

BMul(a, b) == BMulRange(a, b, 1, Len(b), <<>>)

\* one step of the long division: bring down bit k of n
BDivStep(n, d, k, st) ==
  CHOOSE res \in
    { IF BLt(r1, d) THEN [q |-> Append(st.q, 0), r |-> r1]
                    ELSE [q |-> Append(st.q, 1), r |-> BSub(r1, d)] :
        r1 \in { IF st.r = <<>> /\ n[k] = 0 THEN <<>> ELSE Append(st.r, n[k]) } } : TRUE

RECURSIVE BDivRange(_, _, _, _, _)
BDivRange(n, d, lo, hi, st) ==
  IF lo > hi THEN st
  ELSE IF lo = hi THEN BDivStep(n, d, lo, st)
  ELSE CHOOSE r \in { BDivRange(n, d, (lo + hi) \div 2 + 1, hi, s) :
                        s \in {BDivRange(n, d, lo, (lo + hi) \div 2, st)} } : TRUE

\* quotient and remainder of n by d
BDivMod(n, d) ==
  CHOOSE r \in { [q |-> BStrip(st.q), r |-> st.r] :
                   st \in {BDivRange(n, d, 1, Len(n), [q |-> <<>>, r |-> <<>>])} } : TRUE

\* m * 2^e with the trailing zeros of m moved into the exponent
DblCanon(m, e) ==
  IF m = <<>> THEN [m |-> <<>>, e |-> 0]
  ELSE CHOOSE r \in { [m |-> SubSeq(m, 1, last), e |-> e + Len(m) - last] :
                        last \in { k \in 1..Len(m) :
                                     m[k] = 1 /\ \A j \in (k + 1)..Len(m) : m[j] = 0 } } : TRUE

\* q * 2^e (+ a non-zero fraction of the last place when sticky) rounded to
\* 53 significant bits, ties to even
DblRound(q, sticky, e) ==
  IF Len(q) <= 53 THEN DblCanon(q, e)
  ELSE LET keep  == SubSeq(q, 1, 53)
           more  == sticky \/ \E k \in 55..Len(q) : q[k] = 1
           up    == q[54] = 1 /\ (more \/ q[53] = 1)
       IN  DblCanon(IF up THEN BAdd(keep, <<1>>) ELSE keep, e + Len(q) - 53)

DblFromInt(k) == DblCanon(BFromInt(k), 0)

DblMul(a, b) ==
  CHOOSE r \in { DblRound(p, FALSE, a.e + b.e) : p \in {BMul(a.m, b.m)} } : TRUE

\* a + b: the mantissas are aligned on the smaller exponent
DblAdd(a, b) ==
  IF a.m = <<>> THEN b
  ELSE IF b.m = <<>> THEN a
  ELSE CHOOSE r \in
         { DblRound(s, FALSE, IF a.e < b.e THEN a.e ELSE b.e) :
             s \in { BAdd(a.m \o [j \in 1..(IF a.e > b.e THEN a.e - b.e ELSE 0) |-> 0],
                          b.m \o [j \in 1..(IF b.e > a.e THEN b.e - a.e ELSE 0) |-> 0]) } } : TRUE

DblDiv(a, b) ==
  CHOOSE r \in { DblRound(qr.q, qr.r # <<>>, a.e - b.e - (56 + Len(b.m))) :
                   qr \in {BDivMod(a.m \o [j \in 1..(56 + Len(b.m)) |-> 0], b.m)} } : TRUE

\* Math.ceil as an integer
DblCeil(a) ==
  IF a.e >= 0 THEN BToInt(a.m \o [j \in 1..a.e |-> 0])
  ELSE (IF Len(a.m) > -a.e THEN BToInt(SubSeq(a.m, 1, Len(a.m) + a.e)) ELSE 0) + 1

(***************************************************************************)
(* constants.ts                                                            *)
(***************************************************************************)
WHT_FACTOR == R(95, 100)

EXCHANGE_RATE_SAR == R(376, 100)

STANDARD_FLOOR_RAW == 6500

COMBO_FLOOR_LD_RAW == 4000

VAT_RATE == R(15, 100)

UtdVariantNames == {"ANYWHERE", "UTDADV", "UTDEE"}

LdVariantNames == {"BASE PKG", "BASE PKG+FLINK", "BASE PKG+FLINK+IPE",
                   "EE-Combo", "EE-Combo+FLINK", "EE-Combo+FLINK+IPE"}

\* UTD_VARIANTS[v] || 0
UTD_VARIANTS(v) ==
  CASE v = "ANYWHERE" -> RInt(259)
    [] v = "UTDADV"   -> RInt(270)
    [] v = "UTDEE"    -> RInt(265)
    [] OTHER          -> RZero

\* LD_VARIANTS[v] || 0
LD_VARIANTS(v) ==
  CASE v = "BASE PKG"           -> RInt(80)
    [] v = "BASE PKG+FLINK"     -> RInt(92)
    [] v = "BASE PKG+FLINK+IPE" -> RInt(108)
    [] v = "EE-Combo"           -> R(6625, 100)
    [] v = "EE-Combo+FLINK"     -> R(7825, 100)
    [] v = "EE-Combo+FLINK+IPE" -> R(9425, 100)
    [] OTHER                    -> RZero

LXD_ADDONS == [FLINK |-> 12, IPE |-> 16, FLINK_IPE |-> 28]

\* String.prototype.includes over the variant names of the catalog
Includes(s, sub) ==
  CASE sub = "BASE PKG" -> s \in {"BASE PKG", "BASE PKG+FLINK", "BASE PKG+FLINK+IPE"}
    [] sub = "FLINK"    -> s \in {"BASE PKG+FLINK", "BASE PKG+FLINK+IPE",
                                  "EE-Combo+FLINK", "EE-Combo+FLINK+IPE"}
    [] sub = "IPE"      -> s \in {"BASE PKG+FLINK+IPE", "EE-Combo+FLINK+IPE"}
    [] OTHER            -> FALSE

(***************************************************************************)
(* Configuration accessors (the JavaScript `x || default` idiom)           *)
(***************************************************************************)
\* productInputs[prodId] || { count: 0, variant: '', baseDiscount: 0, expiringAmount: 0 }
DefaultInputs ==
  [count |-> 0, variant |-> "", baseDiscount |-> 0, expiringAmount |-> 0,
   existingVariant |-> "", changeInStats |-> FALSE]

InputsOf(cfg, prodId) ==
  IF prodId \in DOMAIN cfg.productInputs THEN cfg.productInputs[prodId] ELSE DefaultInputs

\* renewalUpliftRates[prodId] || 0
UpliftOf(cfg, prodId) ==
  IF prodId \in DOMAIN cfg.renewalUpliftRates THEN cfg.renewalUpliftRates[prodId] ELSE 0

\* productRates[prodId] || rates
SpecificRates(cfg, prodId) ==
  IF prodId \in DOMAIN cfg.productRates THEN cfg.productRates[prodId] ELSE cfg.rates

\* variant: the entry before the intended one is read
RateAt_previous(specificRates, i) ==
  IF i \in 1..Len(specificRates) THEN specificRates[i] ELSE 0

\* variant: past the end of the array the last entry is repeated
RateAt_lastRepeats(specificRates, i) ==
  IF i + 1 \in 1..Len(specificRates) THEN specificRates[i + 1]
  ELSE IF Len(specificRates) > 0 THEN specificRates[Len(specificRates)] ELSE 0

\* specificRates[i] || 0, i counted from 0 as in the code
RateAt(specificRates, i) ==
  IF i + 1 \in 1..Len(specificRates) THEN specificRates[i + 1] ELSE 0

SeqIncludes(seq, x) == \E k \in 1..Len(seq) : seq[k] = x

(***************************************************************************)
(* getNetFactor, convertToSAR                                              *)
(***************************************************************************)
\* variant: the first year of a new logo is not told apart from later years
getNetFactor_yearBlind(dealType, channel, yearIndex) ==
  CASE channel = "DIRECT" -> RInt(1)
    [] channel = "FULFILMENT" -> R(95, 100)
    [] channel = "PARTNER_SOURCED" -> R(90, 100)
    [] OTHER -> RInt(1)

getNetFactor(dealType, channel, yearIndex) ==
  CASE channel = "DIRECT" -> RInt(1)
    [] channel = "FULFILMENT" ->
         IF dealType = "RENEWAL" THEN R(95, 100)
         ELSE IF yearIndex = 0 THEN R(925, 1000) ELSE R(95, 100)
    [] channel = "PARTNER_SOURCED" ->
         IF dealType = "RENEWAL" THEN R(90, 100)
         ELSE IF yearIndex = 0 THEN R(85, 100) ELSE R(90, 100)
    [] OTHER -> RInt(1)

\* variant: rounds to the nearest 10 SAR instead of up
convertToSAR_nearest(usdAmount) ==
  LET rawSar == RMul(usdAmount, EXCHANGE_RATE_SAR)
  IN  RMul(RInt(RToFixed0(RDiv(rawSar, RInt(10)))), RInt(10))

convertToSAR(usdAmount) ==
  LET rawSar == RMul(usdAmount, EXCHANGE_RATE_SAR)
  IN  RMul(RCeil(RDiv(rawSar, RInt(10))), RInt(10))

\* the number the literal 3.76 denotes: the binary64 nearest to 376/100
EXCHANGE_RATE_SAR64 == DblDiv(DblFromInt(376), DblFromInt(100))

\* convertToSAR in binary64; the result is an integer
convertToSAR64(usdAmount) ==
  LET rawSar == DblMul(usdAmount, EXCHANGE_RATE_SAR64)
  IN  DblCeil(DblDiv(rawSar, DblFromInt(10))) * 10

(***************************************************************************)
(* Step 1: year-1 value of one product (the body of the first forEach)     *)
(***************************************************************************)
activeStandardFloor(applyWHT) ==
  IF applyWHT THEN RDiv(RInt(STANDARD_FLOOR_RAW), WHT_FACTOR) ELSE RInt(STANDARD_FLOOR_RAW)

\* variant: the combo floor is not grossed up for WHT
activeComboFloor_raw(applyWHT) == RInt(COMBO_FLOOR_LD_RAW)

activeComboFloor(applyWHT) ==
  IF applyWHT THEN RDiv(RInt(COMBO_FLOOR_LD_RAW), WHT_FACTOR) ELSE RInt(COMBO_FLOOR_LD_RAW)

listRateOf(prodId, variant) ==
  CASE prodId = "utd" -> UTD_VARIANTS(variant)
    [] prodId = "ld"  -> LD_VARIANTS(variant)
    [] OTHER          -> RZero

\* variant: the WHT factor is multiplied in instead of divided out
baseNetOf_whtMultiplied(cfg, prodId) ==
  LET inputs    == InputsOf(cfg, prodId)
      baseGross == IF prodId \in {"utd", "ld"}
                   THEN RMul(RInt(inputs.count), listRateOf(prodId, inputs.variant))
                   ELSE RZero
      net       == RMul(baseGross, RSub(RInt(1), R(inputs.baseDiscount, 100)))
  IN  IF cfg.applyWHT THEN RMul(net, WHT_FACTOR) ELSE net

\* baseNet: count * listRate * (1 - baseDiscount/100), grossed up for WHT
baseNetOf(cfg, prodId) ==
  LET inputs    == InputsOf(cfg, prodId)
      baseGross == IF prodId \in {"utd", "ld"}
                   THEN RMul(RInt(inputs.count), listRateOf(prodId, inputs.variant))
                   ELSE RZero
      net       == RMul(baseGross, RSub(RInt(1), R(inputs.baseDiscount, 100)))
  IN  IF cfg.applyWHT THEN RDiv(net, WHT_FACTOR) ELSE net

\* variant: a UTDEE renewed as UTDEE follows the uplift rate like the others
utdPath_eeFollowsUplift(existing, target, expiring, standardBase, upliftVal) ==
  IF existing = target
  THEN [price |-> standardBase, notes |-> <<>>]
  ELSE CASE existing = "ANYWHERE" /\ target = "UTDADV" ->
              [price |-> RMul(expiring, RAdd(RInt(1), R(upliftVal + 8, 100))),
               notes |-> <<"UTD: Upsell Anywhere -> Adv (Uplift + 8% applied)">>]
         [] existing = "ANYWHERE" /\ target = "UTDEE" ->
              [price |-> RMul(expiring, R(111, 100)),
               notes |-> <<"UTD: Upsell Anywhere -> EE (11% applied)">>]
         [] existing = "UTDADV" /\ target = "UTDEE" ->
              [price |-> RMul(expiring, R(108, 100)),
               notes |-> <<"UTD: Upsell Adv -> EE (8% applied)">>]
         [] OTHER ->
              [price |-> standardBase, notes |-> <<>>]

\* pathBasedPrice of the utd branch, with the note the path pushes
utdPath(existing, target, expiring, standardBase, upliftVal) ==
  IF existing = target
  THEN [price |-> IF existing = "UTDEE" THEN RMul(expiring, R(108, 100)) ELSE standardBase,
        notes |-> <<>>]
  ELSE CASE existing = "ANYWHERE" /\ target = "UTDADV" ->
              [price |-> RMul(expiring, RAdd(RInt(1), R(upliftVal + 8, 100))),
               notes |-> <<"UTD: Upsell Anywhere -> Adv (Uplift + 8% applied)">>]
         [] existing = "ANYWHERE" /\ target = "UTDEE" ->
              [price |-> RMul(expiring, R(111, 100)),
               notes |-> <<"UTD: Upsell Anywhere -> EE (11% applied)">>]
         [] existing = "UTDADV" /\ target = "UTDEE" ->
              [price |-> RMul(expiring, R(108, 100)),
               notes |-> <<"UTD: Upsell Adv -> EE (8% applied)">>]
         [] OTHER ->
              [price |-> standardBase, notes |-> <<>>]

\* variant: a set changeInStats overrides the path price even when baseNet is lower
utdRenewal_overridesWhenLower(cfg, inputs, baseNet, expiring, standardBase, upliftVal) ==
  LET existing == IF inputs.existingVariant # "" THEN inputs.existingVariant ELSE inputs.variant
      target   == inputs.variant
      path     == utdPath(existing, target, expiring, standardBase, upliftVal)
      isHigherValueOverride == inputs.changeInStats
      actualY1Price == IF isHigherValueOverride THEN baseNet ELSE path.price
  IN  [price       |-> actualY1Price,
       renewalBase |-> IF existing = target /\ ~isHigherValueOverride
                       THEN actualY1Price ELSE standardBase,
       notes       |-> IF isHigherValueOverride
                       THEN Append(path.notes,
                                   "UTD: Stats Change Override ($"
                                     \o ToString(RToFixed0(baseNet)) \o ")")
                       ELSE path.notes]

\* the utd branch of the renewal logic: [price, renewalBase, notes]
utdRenewal(cfg, inputs, baseNet, expiring, standardBase, upliftVal) ==
  LET existing == IF inputs.existingVariant # "" THEN inputs.existingVariant ELSE inputs.variant
      target   == inputs.variant
      path     == utdPath(existing, target, expiring, standardBase, upliftVal)
      isHigherValueOverride == inputs.changeInStats /\ RLt(path.price, baseNet)
      actualY1Price == IF isHigherValueOverride THEN baseNet ELSE path.price
  IN  [price       |-> actualY1Price,
       renewalBase |-> IF existing = target /\ ~isHigherValueOverride
                       THEN actualY1Price ELSE standardBase,
       notes       |-> IF isHigherValueOverride
                       THEN Append(path.notes,
                                   "UTD: Stats Change Override ($"
                                     \o ToString(RToFixed0(baseNet)) \o ")")
                       ELSE path.notes]

\* variant: the add-on surcharge is counted into the renewal base
ldRenewal_surchargeInBase(cfg, inputs, standardBase) ==
  LET existing == IF inputs.existingVariant # "" THEN inputs.existingVariant ELSE inputs.variant
      target   == inputs.variant
      isBase         == Includes(existing, "BASE PKG")
      isFlink        == Includes(existing, "FLINK") /\ ~Includes(existing, "IPE")
      targetFlink    == Includes(target, "FLINK") /\ ~Includes(target, "IPE")
      targetFlinkIPE == Includes(target, "FLINK") /\ Includes(target, "IPE")
      addOn ==
        IF isBase /\ targetFlink
        THEN [perBed |-> LXD_ADDONS.FLINK,
              notes  |-> <<"LXD: Upsell Base -> Formulink (+$12/bed)">>]
        ELSE IF isBase /\ targetFlinkIPE
        THEN [perBed |-> LXD_ADDONS.FLINK_IPE,
              notes  |-> <<"LXD: Upsell Base -> Flink+IPE (+$28/bed)">>]
        ELSE IF isFlink /\ targetFlinkIPE
        THEN [perBed |-> LXD_ADDONS.IPE,
              notes  |-> <<"LXD: Upsell Flink -> Flink+IPE (+$16/bed)">>]
        ELSE [perBed |-> 0, notes |-> <<>>]
      rawAddOn   == RInt(inputs.count * addOn.perBed)
      addOnTotal == IF addOn.perBed > 0
                    THEN (IF cfg.applyWHT THEN RDiv(rawAddOn, WHT_FACTOR) ELSE rawAddOn)
                    ELSE RZero
  IN  IF existing = target
      THEN [price |-> standardBase, renewalBase |-> standardBase, notes |-> <<>>]
      ELSE [price |-> RAdd(standardBase, addOnTotal),
            renewalBase |-> RAdd(standardBase, addOnTotal), notes |-> addOn.notes]

\* the ld branch of the renewal logic: [price, renewalBase, notes]
ldRenewal(cfg, inputs, standardBase) ==
  LET existing == IF inputs.existingVariant # "" THEN inputs.existingVariant ELSE inputs.variant
      target   == inputs.variant
      isBase         == Includes(existing, "BASE PKG")
      isFlink        == Includes(existing, "FLINK") /\ ~Includes(existing, "IPE")
      targetFlink    == Includes(target, "FLINK") /\ ~Includes(target, "IPE")
      targetFlinkIPE == Includes(target, "FLINK") /\ Includes(target, "IPE")
      addOn ==
        IF isBase /\ targetFlink
        THEN [perBed |-> LXD_ADDONS.FLINK,
              notes  |-> <<"LXD: Upsell Base -> Formulink (+$12/bed)">>]
        ELSE IF isBase /\ targetFlinkIPE
        THEN [perBed |-> LXD_ADDONS.FLINK_IPE,
              notes  |-> <<"LXD: Upsell Base -> Flink+IPE (+$28/bed)">>]
        ELSE IF isFlink /\ targetFlinkIPE
        THEN [perBed |-> LXD_ADDONS.IPE,
              notes  |-> <<"LXD: Upsell Flink -> Flink+IPE (+$16/bed)">>]
        ELSE [perBed |-> 0, notes |-> <<>>]
      rawAddOn   == RInt(inputs.count * addOn.perBed)
      addOnTotal == IF addOn.perBed > 0
                    THEN (IF cfg.applyWHT THEN RDiv(rawAddOn, WHT_FACTOR) ELSE rawAddOn)
                    ELSE RZero
  IN  IF existing = target
      THEN [price |-> standardBase, renewalBase |-> standardBase, notes |-> <<>>]
      ELSE [price |-> RAdd(standardBase, addOnTotal), renewalBase |-> standardBase,
            notes |-> addOn.notes]

\* variant: a renewal without expiring amount is priced like a new logo
year1Item_renewalNeedsExpiring(cfg, prodId) ==
  LET inputs  == InputsOf(cfg, prodId)
      baseNet == baseNetOf(cfg, prodId)
  IN  IF cfg.dealType = "RENEWAL" /\ inputs.expiringAmount # 0
      THEN LET expiring     == RInt(inputs.expiringAmount)
               upliftVal    == UpliftOf(cfg, prodId)
               standardBase == RMul(expiring, OnePlusPct(upliftVal))
               r == CASE prodId = "utd" ->
                           utdRenewal(cfg, inputs, baseNet, expiring, standardBase, upliftVal)
                      [] prodId = "ld" -> ldRenewal(cfg, inputs, standardBase)
                      [] OTHER -> [price |-> expiring, renewalBase |-> RZero, notes |-> <<>>]
           IN  [net |-> r.price, renewalBase |-> r.renewalBase, notes |-> r.notes]
      ELSE [net |-> baseNet, renewalBase |-> RZero, notes |-> <<>>]

\* one iteration of the Step-1 forEach: [net, renewalBase, notes]
year1Item(cfg, prodId) ==
  LET inputs  == InputsOf(cfg, prodId)
      baseNet == baseNetOf(cfg, prodId)
  IN  IF cfg.dealType = "RENEWAL"
      THEN LET expiring     == RInt(inputs.expiringAmount)
               upliftVal    == UpliftOf(cfg, prodId)
               standardBase == RMul(expiring, OnePlusPct(upliftVal))
               r == CASE prodId = "utd" ->
                           utdRenewal(cfg, inputs, baseNet, expiring, standardBase, upliftVal)
                      [] prodId = "ld" -> ldRenewal(cfg, inputs, standardBase)
                      [] OTHER -> [price |-> expiring, renewalBase |-> RZero, notes |-> <<>>]
           IN  [net |-> r.price, renewalBase |-> r.renewalBase, notes |-> r.notes]
      ELSE [net |-> baseNet, renewalBase |-> RZero, notes |-> <<>>]

RECURSIVE ConcatAll(_)
ConcatAll(ss) == IF ss = <<>> THEN <<>> ELSE Head(ss) \o ConcatAll(Tail(ss))

\* Step 1 over selectedProducts, in order
step1(cfg) ==
  LET sel   == cfg.selectedProducts
      items == [k \in 1..Len(sel) |-> year1Item(cfg, sel[k])]
  IN  [nets  |-> [p \in {sel[k] : k \in 1..Len(sel)} |->
                    items[CHOOSE k \in 1..Len(sel) : sel[k] = p /\
                             \A j \in (k + 1)..Len(sel) : sel[j] # p].net],
       totalRenewalBaseForACV |-> RSum([k \in 1..Len(sel) |-> items[k].renewalBase]),
       notes |-> ConcatAll([k \in 1..Len(sel) |-> items[k].notes])]

(***************************************************************************)
(* Step 2: floor logic on the year-1 values                                *)
(***************************************************************************)
\* variant: the test is `<=`, so a value already at the floor is adjusted again
belowFloor_orEqual(value, floor) == RLe(value, floor)

\* the test `year1ProductNets[p] < floor` that guards each adjustment
belowFloor(value, floor) == RLt(value, floor)

\* [nets, notes, floorTriggered]: notes are the notes this step appends
step2(nets, selectedProducts, applyWHT) ==
  LET hasUTD == SeqIncludes(selectedProducts, "utd")
      hasLD  == SeqIncludes(selectedProducts, "ld")
      same   == [nets |-> nets, notes |-> <<>>, floorTriggered |-> FALSE]
  IN  IF hasUTD /\ hasLD
      THEN IF belowFloor(nets["ld"], activeComboFloor(applyWHT))
           THEN [nets  |-> [nets EXCEPT !["ld"] = activeComboFloor(applyWHT)],
                 notes |-> <<"LD adjusted to Combo Floor">>, floorTriggered |-> TRUE]
           ELSE same
      ELSE IF hasUTD
      THEN IF belowFloor(nets["utd"], activeStandardFloor(applyWHT))
           THEN [nets  |-> [nets EXCEPT !["utd"] = activeStandardFloor(applyWHT)],
                 notes |-> <<"UTD adjusted to Minimum Floor">>, floorTriggered |-> TRUE]
           ELSE same
      ELSE IF hasLD
      THEN IF belowFloor(nets["ld"], activeStandardFloor(applyWHT))
           THEN [nets  |-> [nets EXCEPT !["ld"] = activeStandardFloor(applyWHT)],
                 notes |-> <<"LD adjusted to Minimum Floor">>, floorTriggered |-> TRUE]
           ELSE same
      ELSE same

(***************************************************************************)
(* Step 3: multi-year projection of one product                            *)
(***************************************************************************)
\* variant: the forward projection applies entry 0 to the first year
project_anchorRated(y1Value, years, method, specificRates) ==
  LET fwd[k \in 1..years] ==
        IF k = 1 THEN RMul(y1Value, OnePlusPct(RateAt(specificRates, 0)))
        ELSE RMul(fwd[k - 1], OnePlusPct(RateAt(specificRates, k - 1)))
      rev[k \in 1..years] ==
        IF k = years THEN y1Value
        ELSE RDiv(rev[k + 1], OnePlusPct(RateAt(specificRates, k)))
  IN  IF method = "MYFPI" THEN [k \in 1..years |-> fwd[k]]
                          ELSE [k \in 1..years |-> rev[k]]

\* variant: the reverse projection multiplies by the rate instead of dividing
project_reverseMultiplies(y1Value, years, method, specificRates) ==
  LET fwd[k \in 1..years] ==
        IF k = 1 THEN y1Value
        ELSE RMul(fwd[k - 1], OnePlusPct(RateAt(specificRates, k - 1)))
      rev[k \in 1..years] ==
        IF k = years THEN y1Value
        ELSE RMul(rev[k + 1], OnePlusPct(RateAt(specificRates, k)))
  IN  IF method = "MYFPI" THEN [k \in 1..years |-> fwd[k]]
                          ELSE [k \in 1..years |-> rev[k]]

\* variant: a rate of -100 % is skipped by the reverse projection
project_zeroDivisorSkipped(y1Value, years, method, specificRates) ==
  LET fwd[k \in 1..years] ==
        IF k = 1 THEN y1Value
        ELSE RMul(fwd[k - 1], OnePlusPct(RateAt(specificRates, k - 1)))
      rev[k \in 1..years] ==
        IF k = years THEN y1Value
        ELSE IF RateAt(specificRates, k) = -100 THEN rev[k + 1]
        ELSE RDiv(rev[k + 1], OnePlusPct(RateAt(specificRates, k)))
  IN  IF method = "MYFPI" THEN [k \in 1..years |-> fwd[k]]
                          ELSE [k \in 1..years |-> rev[k]]

\* schedule as a sequence: schedule[i] of the code is project(...)[i + 1]
project(y1Value, years, method, specificRates) ==
  LET fwd[k \in 1..years] ==
        IF k = 1 THEN y1Value
        ELSE RMul(fwd[k - 1], OnePlusPct(RateAt(specificRates, k - 1)))
      rev[k \in 1..years] ==
        IF k = years THEN y1Value
        ELSE RDiv(rev[k + 1], OnePlusPct(RateAt(specificRates, k)))
  IN  IF method = "MYFPI" THEN [k \in 1..years |-> fwd[k]]
                          ELSE [k \in 1..years |-> rev[k]]

step3(cfg, nets) ==
  [p \in DOMAIN nets |-> project(nets[p], cfg.years, cfg.method, SpecificRates(cfg, p))]

(***************************************************************************)
(* Step 3.5: flat pricing; Step 3.6: rounding                              *)
(***************************************************************************)
\* variant: every year takes the first year's value instead of the mean
flatten_firstYear(schedule, years) == [k \in 1..years |-> schedule[1]]

flatten(schedule, years) ==
  LET averageAnnual == RDiv(RSum(schedule), RInt(years))
  IN  [k \in 1..years |-> averageAnnual]

step3_5(cfg, schedules) ==
  IF cfg.flatPricing /\ cfg.years > 1
  THEN [p \in DOMAIN schedules |-> flatten(schedules[p], cfg.years)]
  ELSE schedules

roundValue(val, channel) ==
  IF channel = "DIRECT"
  THEN RMul(RCeil(RDiv(val, RInt(100))), RInt(100))
  ELSE LET rawSAR     == RMul(val, EXCHANGE_RATE_SAR)
           roundedSAR == RMul(RCeil(RDiv(rawSAR, RInt(1000))), RInt(1000))
       IN  RDiv(roundedSAR, EXCHANGE_RATE_SAR)

\* the body of the Step-3.6 loop in binary64
roundValue64(val, channel) ==
  IF channel = "DIRECT"
  THEN DblFromInt(DblCeil(DblDiv(val, DblFromInt(100))) * 100)
  ELSE LET rawSAR     == DblMul(val, EXCHANGE_RATE_SAR64)
           roundedSAR == DblCeil(DblDiv(rawSAR, DblFromInt(1000))) * 1000
       IN  DblDiv(DblFromInt(roundedSAR), EXCHANGE_RATE_SAR64)

step3_6(cfg, schedules) ==
  IF cfg.rounding
  THEN [p \in DOMAIN schedules |->
          [k \in 1..cfg.years |-> roundValue(schedules[p][k], cfg.channel)]]
  ELSE schedules

(***************************************************************************)
(* Step 4: one iteration of the aggregation loop                           *)
(***************************************************************************)
ZeroTotals ==
  [totalTCV |-> RZero, totalGrossUSD |-> RZero, totalGrossSAR |-> RZero,
   totalVatSAR |-> RZero, totalGrandTotalSAR |-> RZero,
   totalNetUSD |-> RZero, totalNetSAR |-> RZero]

\* variant: the loop stops one year early
loopContinues_oneShort(i, years) == i + 1 < years

\* the loop condition of `for (let i = 0; i < years; i++)`
loopContinues(i, years) == i < years

\* variant: no VAT is charged
vatOf_none(yearGrossSAR) == RZero

\* yearGrossSAR * 0.15
vatOf(yearGrossSAR) == RMul(yearGrossSAR, VAT_RATE)

\* variant: the grand total leaves the VAT out
grandTotalOf_noVat(yearGrossSAR, yearVatSAR) == yearGrossSAR

\* yearGrossSAR + yearVatSAR
grandTotalOf(yearGrossSAR, yearVatSAR) == RAdd(yearGrossSAR, yearVatSAR)

\* variant: the floor flag and the notes are put on every year
yearResult_flagEveryYear(cfg, schedules, notes, triggered, i) ==
  LET sel       == cfg.selectedProducts
      netFactor == getNetFactor(cfg.dealType, cfg.channel, i)
      breakdown == [k \in 1..Len(sel) |->
                      LET val == schedules[sel[k]][i + 1]
                      IN  [id |-> sel[k], gross |-> val, grossSAR |-> convertToSAR(val),
                           net |-> RMul(val, netFactor)]]
      yearSum       == RSum([k \in 1..Len(sel) |-> schedules[sel[k]][i + 1]])
      yearGrossSAR  == convertToSAR(yearSum)
      yearVatSAR    == vatOf(yearGrossSAR)
      recognizedUSD == RMul(yearSum, netFactor)
  IN  [year          |-> i + 1,
       breakdown     |-> breakdown,
       grossUSD      |-> yearSum,
       grossSAR      |-> yearGrossSAR,
       vatSAR        |-> yearVatSAR,
       grandTotalSAR |-> grandTotalOf(yearGrossSAR, yearVatSAR),
       netUSD        |-> recognizedUSD,
       netSAR        |-> RMul(recognizedUSD, EXCHANGE_RATE_SAR),
       floorAdjusted |-> triggered,
       notes         |-> notes]

\* the PricingResult pushed for year index i (0-based)
yearResult(cfg, schedules, notes, triggered, i) ==
  LET sel       == cfg.selectedProducts
      netFactor == getNetFactor(cfg.dealType, cfg.channel, i)
      breakdown == [k \in 1..Len(sel) |->
                      LET val == schedules[sel[k]][i + 1]
                      IN  [id |-> sel[k], gross |-> val, grossSAR |-> convertToSAR(val),
                           net |-> RMul(val, netFactor)]]
      yearSum       == RSum([k \in 1..Len(sel) |-> schedules[sel[k]][i + 1]])
      yearGrossSAR  == convertToSAR(yearSum)
      yearVatSAR    == vatOf(yearGrossSAR)
      recognizedUSD == RMul(yearSum, netFactor)
  IN  [year          |-> i + 1,
       breakdown     |-> breakdown,
       grossUSD      |-> yearSum,
       grossSAR      |-> yearGrossSAR,
       vatSAR        |-> yearVatSAR,
       grandTotalSAR |-> grandTotalOf(yearGrossSAR, yearVatSAR),
       netUSD        |-> recognizedUSD,
       netSAR        |-> RMul(recognizedUSD, EXCHANGE_RATE_SAR),
       floorAdjusted |-> (i = 0 /\ triggered),
       notes         |-> IF i = 0 THEN notes ELSE <<>>]

\* variant: totalGrossUSD accumulates the recognized amount instead of the gross
addYear_netAsGross(totals, yr) ==
  [totalTCV           |-> RAdd(totals.totalTCV, yr.grossUSD),
   totalGrossUSD      |-> RAdd(totals.totalGrossUSD, yr.netUSD),
   totalGrossSAR      |-> RAdd(totals.totalGrossSAR, yr.grossSAR),
   totalVatSAR        |-> RAdd(totals.totalVatSAR, yr.vatSAR),
   totalGrandTotalSAR |-> RAdd(totals.totalGrandTotalSAR, yr.grandTotalSAR),
   totalNetUSD        |-> RAdd(totals.totalNetUSD, yr.netUSD),
   totalNetSAR        |-> RAdd(totals.totalNetSAR, yr.netSAR)]

\* the running sums after the iteration that pushed yr
addYear(totals, yr) ==
  [totalTCV           |-> RAdd(totals.totalTCV, yr.grossUSD),
   totalGrossUSD      |-> RAdd(totals.totalGrossUSD, yr.grossUSD),
   totalGrossSAR      |-> RAdd(totals.totalGrossSAR, yr.grossSAR),
   totalVatSAR        |-> RAdd(totals.totalVatSAR, yr.vatSAR),
   totalGrandTotalSAR |-> RAdd(totals.totalGrandTotalSAR, yr.grandTotalSAR),
   totalNetUSD        |-> RAdd(totals.totalNetUSD, yr.netUSD),
   totalNetSAR        |-> RAdd(totals.totalNetSAR, yr.netSAR)]

\* productNetTotals[prodId] += netVal, for every entry of the year's breakdown
addProductNets(pnt, yr) ==
  [p \in DOMAIN pnt |->
     RAdd(pnt[p], RSum([k \in 1..Len(yr.breakdown) |->
                          IF yr.breakdown[k].id = p THEN yr.breakdown[k].net ELSE RZero]))]

(***************************************************************************)
(* Step 5: ACV splits and the returned CalculationOutput                   *)
(***************************************************************************)
\* variant: the difference is not clamped at zero
upsellOf_unclamped(dealType, acvUSD, renewalBase) ==
  IF dealType = "RENEWAL" THEN RSub(acvUSD, renewalBase) ELSE RZero

upsellOf(dealType, acvUSD, renewalBase) ==
  IF dealType = "RENEWAL" THEN RMax(RZero, RSub(acvUSD, renewalBase)) ELSE RZero

\* variant: the net splits are the gross figures, no net factor applied
step5_grossSplits(cfg, results, totals, pnt, renewalBase) ==
  LET acvUSD           == RDiv(totals.totalTCV, RInt(cfg.years))
      netACV           == RDiv(totals.totalNetUSD, RInt(cfg.years))
      upsellACV        == upsellOf(cfg.dealType, acvUSD, renewalBase)
      renewalNetFactor == RInt(1)
  IN  [yearlyResults      |-> results,
       totalGrossUSD      |-> totals.totalGrossUSD,
       totalGrossSAR      |-> totals.totalGrossSAR,
       totalVatSAR        |-> totals.totalVatSAR,
       totalGrandTotalSAR |-> totals.totalGrandTotalSAR,
       totalNetUSD        |-> totals.totalNetUSD,
       totalNetSAR        |-> totals.totalNetSAR,
       productNetTotals   |-> pnt,
       acvUSD             |-> acvUSD,
       netACV             |-> netACV,
       renewalBaseACV     |-> renewalBase,
       netRenewalBaseACV  |-> RMul(renewalBase, renewalNetFactor),
       upsellACV          |-> upsellACV,
       netUpsellACV       |-> RMul(upsellACV, renewalNetFactor),
       currencyToDisplay  |-> IF cfg.channel = "DIRECT" THEN "USD" ELSE "SAR"]

step5(cfg, results, totals, pnt, renewalBase) ==
  LET acvUSD           == RDiv(totals.totalTCV, RInt(cfg.years))
      netACV           == RDiv(totals.totalNetUSD, RInt(cfg.years))
      upsellACV        == upsellOf(cfg.dealType, acvUSD, renewalBase)
      renewalNetFactor == getNetFactor(cfg.dealType, cfg.channel, 0)
  IN  [yearlyResults      |-> results,
       totalGrossUSD      |-> totals.totalGrossUSD,
       totalGrossSAR      |-> totals.totalGrossSAR,
       totalVatSAR        |-> totals.totalVatSAR,
       totalGrandTotalSAR |-> totals.totalGrandTotalSAR,
       totalNetUSD        |-> totals.totalNetUSD,
       totalNetSAR        |-> totals.totalNetSAR,
       productNetTotals   |-> pnt,
       acvUSD             |-> acvUSD,
       netACV             |-> netACV,
       renewalBaseACV     |-> renewalBase,
       netRenewalBaseACV  |-> RMul(renewalBase, renewalNetFactor),
       upsellACV          |-> upsellACV,
       netUpsellACV       |-> RMul(upsellACV, renewalNetFactor),
       currencyToDisplay  |-> IF cfg.channel = "DIRECT" THEN "USD" ELSE "SAR"]

(***************************************************************************)
(* calculatePricing as one function of the configuration                   *)
(***************************************************************************)
RECURSIVE aggregate(_, _, _, _, _, _)
\* the Step-4 loop from index i on; st = [results, totals, pnt]
aggregate(cfg, schedules, notes, triggered, i, st) ==
  IF ~loopContinues(i, cfg.years) THEN st
  ELSE LET yr == yearResult(cfg, schedules, notes, triggered, i)
       IN  aggregate(cfg, schedules, notes, triggered, i + 1,
                     [results |-> Append(st.results, yr),
                      totals  |-> addYear(st.totals, yr),
                      pnt     |-> addProductNets(st.pnt, yr)])

calculatePricing(cfg) ==
  LET s1        == step1(cfg)
      s2        == step2(s1.nets, cfg.selectedProducts, cfg.applyWHT)
      schedules == step3_6(cfg, step3_5(cfg, step3(cfg, s2.nets)))
      st        == aggregate(cfg, schedules, s1.notes \o s2.notes, s2.floorTriggered, 0,
                             [results |-> <<>>, totals |-> ZeroTotals,
                              pnt |-> [p \in DOMAIN s1.nets |-> RZero]])
  IN  step5(cfg, st.results, st.totals, st.pnt, s1.totalRenewalBaseForACV)

(***************************************************************************)
(* Configurations explored                                                 *)
(***************************************************************************)
MaxYears == 3

\* calls made one after the other in a run of repeated calls
MaxCalls == 3

UtdInputs ==
  { [count |-> 100, variant |-> "ANYWHERE", baseDiscount |-> 0, expiringAmount |-> 20000,
     existingVariant |-> "", changeInStats |-> FALSE],
    [count |-> 20, variant |-> "UTDADV", baseDiscount |-> 0, expiringAmount |-> 5000,
     existingVariant |-> "ANYWHERE", changeInStats |-> TRUE],
    [count |-> 40, variant |-> "UTDEE", baseDiscount |-> 25, expiringAmount |-> 6000,
     existingVariant |-> "UTDEE", changeInStats |-> TRUE] }

LdInputs ==
  { [count |-> 50, variant |-> "BASE PKG", baseDiscount |-> 0, expiringAmount |-> 3000,
     existingVariant |-> "BASE PKG", changeInStats |-> FALSE],
    [count |-> 125, variant |-> "BASE PKG", baseDiscount |-> 35, expiringAmount |-> 8000,
     existingVariant |-> "", changeInStats |-> FALSE],
    [count |-> 100, variant |-> "BASE PKG+FLINK+IPE", baseDiscount |-> 0,
     expiringAmount |-> 9000, existingVariant |-> "BASE PKG", changeInStats |-> FALSE] }

UtdLdInputs ==
  { <<u, l>> \in UtdInputs \X LdInputs :
       \/ u.count = 20 /\ l.count = 50
       \/ u.count = 100 /\ l.count = 50
       \/ u.count = 100 /\ l.count = 125
       \/ u.count = 40 /\ l.count = 100 }

\* selectedProducts together with the productInputs of the selected products
Selections ==
  { [selectedProducts |-> <<"utd">>, productInputs |-> [p \in {"utd"} |-> u]] : u \in UtdInputs }
  \cup
  { [selectedProducts |-> <<"ld">>, productInputs |-> [p \in {"ld"} |-> l]] : l \in LdInputs }
  \cup
  { [selectedProducts |-> <<"utd", "ld">>,
     productInputs |-> [p \in {"utd", "ld"} |-> IF p = "utd" THEN ul[1] ELSE ul[2]]] :
       ul \in UtdLdInputs }

MixedRates(years) ==
  [k \in 1..years |-> IF k = 1 THEN 100 ELSE IF k % 2 = 0 THEN 25 ELSE -20]

\* rates and productRates: all zero, varying by year, shorter than `years`,
\* and a per-product array for utd beside the global array
RateChoices(years) ==
  { [rates |-> r, productRates |-> <<>>] :
       r \in { [k \in 1..years |-> 0],
               MixedRates(years),
               [k \in 1..(IF years > 2 THEN 2 ELSE years) |-> 25] } }
  \cup
  { [rates |-> MixedRates(years),
     productRates |-> [p \in {"utd"} |-> [k \in 1..years |-> IF k = 1 THEN 0 ELSE 100]]] }

MkConfig(dealType, channel, years, method, applyWHT, flatPricing, rounding, sel, rc, uplift) ==
  [dealType |-> dealType, channel |-> channel, years |-> years, method |-> method,
   applyWHT |-> applyWHT, flatPricing |-> flatPricing, rounding |-> rounding,
   selectedProducts |-> sel.selectedProducts, productInputs |-> sel.productInputs,
   rates |-> rc.rates, productRates |-> rc.productRates,
   renewalUpliftRates |-> uplift]

\* the standalone new-logo scenario: 100 heads of ANYWHERE, WHT on, DIRECT,
\* MYFPI over 3 years at 8 %
ScenarioConfigs ==
  { MkConfig("NEW_LOGO", "DIRECT", 3, "MYFPI", TRUE, FALSE, FALSE,
             [selectedProducts |-> <<"utd">>,
              productInputs |-> [p \in {"utd"} |->
                 [count |-> 100, variant |-> "ANYWHERE", baseDiscount |-> 0,
                  expiringAmount |-> 0, existingVariant |-> "", changeInStats |-> FALSE]]],
             [rates |-> <<r0, 8, 8>>, productRates |-> <<>>],
             <<>>) : r0 \in {0, 8} }

\* a two-year MYPP new-logo deal whose anchor year sits on the standard floor
\* (50 beds of BASE PKG = 4000, raised to 6500) and whose first year is
\* 6500 / (1 + 550/100) = 1000
ConversionConfigs ==
  { MkConfig("NEW_LOGO", channel, 2, "MYPP", FALSE, FALSE, FALSE,
             [selectedProducts |-> <<"ld">>,
              productInputs |-> [p \in {"ld"} |->
                 [count |-> 50, variant |-> "BASE PKG", baseDiscount |-> 0,
                  expiringAmount |-> 0, existingVariant |-> "", changeInStats |-> FALSE]]],
             [rates |-> <<0, 550>>, productRates |-> <<>>],
             <<>>) : channel \in {"DIRECT", "FULFILMENT"} }

\* selections with gaps: a selected product without productInputs entry, a
\* variant name the catalog does not list
IncompleteSelections ==
  { [selectedProducts |-> <<"utd">>, productInputs |-> <<>>],
    [selectedProducts |-> <<"utd", "ld">>,
     productInputs |-> [p \in {"ld"} |->
        [count |-> 50, variant |-> "PREMIUM", baseDiscount |-> 0, expiringAmount |-> 3000,
         existingVariant |-> "BASE PKG", changeInStats |-> FALSE]]],
    [selectedProducts |-> <<"utd">>,
     productInputs |-> [p \in {"utd"} |->
        [count |-> 100, variant |-> "UTDPRO", baseDiscount |-> 10, expiringAmount |-> 7000,
         existingVariant |-> "ANYWHERE", changeInStats |-> TRUE]]],
    [selectedProducts |-> <<"ld">>,
     productInputs |-> [p \in {"ld"} |->
        [count |-> 125, variant |-> "BASE PKG", baseDiscount |-> 35, expiringAmount |-> 0,
         existingVariant |-> "", changeInStats |-> FALSE]]],
    [selectedProducts |-> <<"ld", "utd">>,
     productInputs |-> [p \in {"utd"} |->
        [count |-> 100, variant |-> "ANYWHERE", baseDiscount |-> 0, expiringAmount |-> 20000,
         existingVariant |-> "", changeInStats |-> FALSE]]] }

\* rate arrays shorter than `years` (empty, or one entry short), with and
\* without renewal uplift entries
IncompleteRates(years) ==
  { [rates |-> <<>>, productRates |-> <<>>, renewalUpliftRates |-> <<>>],
    [rates |-> [k \in 1..(years - 1) |-> 25], productRates |-> <<>>,
     renewalUpliftRates |-> [p \in {"ld"} |-> 5]],
    [rates |-> [k \in 1..years |-> 25], productRates |-> [p \in {"utd"} |-> <<0>>],
     renewalUpliftRates |-> [p \in {"utd"} |-> 5]] }

\* head counts of the one-year deals whose rounding is followed in binary64
MaxHeads == 64

\* utd head counts of the two-product deals followed in binary64
MaxComboHeads == 8

\* one-year new-logo deals with rounding on, of utd ANYWHERE alone and of
\* utd ANYWHERE with 50 beds of ld BASE PKG: list prices, floors and the
\* one-year schedule are integers, so every value up to Step 3.5 is exact
\* in binary64 as well
Binary64Configs ==
  { MkConfig("NEW_LOGO", channel, 1, "MYFPI", FALSE, FALSE, TRUE,
             [selectedProducts |-> <<"utd">>,
              productInputs |-> [p \in {"utd"} |->
                 [count |-> c, variant |-> "ANYWHERE", baseDiscount |-> 0,
                  expiringAmount |-> 0, existingVariant |-> "", changeInStats |-> FALSE]]],
             [rates |-> <<0>>, productRates |-> <<>>],
             <<>>) :
      channel \in {"DIRECT", "FULFILMENT", "PARTNER_SOURCED"}, c \in 1..MaxHeads }
  \cup
  { MkConfig("NEW_LOGO", channel, 1, "MYFPI", FALSE, FALSE, TRUE,
             [selectedProducts |-> <<"utd", "ld">>,
              productInputs |-> [p \in {"utd", "ld"} |->
                 IF p = "utd"
                 THEN [count |-> c, variant |-> "ANYWHERE", baseDiscount |-> 0,
                       expiringAmount |-> 0, existingVariant |-> "", changeInStats |-> FALSE]
                 ELSE [count |-> 50, variant |-> "BASE PKG", baseDiscount |-> 0,
                       expiringAmount |-> 0, existingVariant |-> "",
                       changeInStats |-> FALSE]]],
             [rates |-> <<0>>, productRates |-> <<>>],
             <<>>) :
      channel \in {"DIRECT", "FULFILMENT", "PARTNER_SOURCED"}, c \in 1..MaxComboHeads }

\* rate arrays with entries of -100 % beside 0 and 25 %
UnguardedRates(years) ==
  { r \in [1..years -> {-100, 0, 25}] : r[1] # 25 }

\* a priced utd alone, and a utd without heads beside a priced ld
UnguardedSelections ==
  { [selectedProducts |-> <<"utd">>,
     productInputs |-> [p \in {"utd"} |->
        [count |-> 100, variant |-> "ANYWHERE", baseDiscount |-> 0, expiringAmount |-> 0,
         existingVariant |-> "", changeInStats |-> FALSE]]],
    [selectedProducts |-> <<"utd", "ld">>,
     productInputs |-> [p \in {"utd", "ld"} |->
        IF p = "utd"
        THEN [count |-> 0, variant |-> "ANYWHERE", baseDiscount |-> 0, expiringAmount |-> 0,
              existingVariant |-> "", changeInStats |-> FALSE]
        ELSE [count |-> 125, variant |-> "BASE PKG", baseDiscount |-> 0, expiringAmount |-> 0,
              existingVariant |-> "", changeInStats |-> FALSE]]] }

\* products with a zero head count or a zero expiring amount beside ones
\* with both set, with and without a variant change and the stats flag
ZeroUtdInputs ==
  { [count |-> c, variant |-> t, baseDiscount |-> 0, expiringAmount |-> e,
     existingVariant |-> x, changeInStats |-> s] :
       c \in {0, 100}, t \in {"ANYWHERE", "UTDEE"}, e \in {0, 5000},
       x \in {"", "ANYWHERE"}, s \in BOOLEAN }

ZeroLdInputs ==
  { [count |-> c, variant |-> t, baseDiscount |-> 0, expiringAmount |-> e,
     existingVariant |-> x, changeInStats |-> FALSE] :
       c \in {0, 50}, t \in {"BASE PKG", "BASE PKG+FLINK"}, e \in {0, 9000},
       x \in {"", "BASE PKG"} }

ZeroSelections ==
  { [selectedProducts |-> <<"utd">>, productInputs |-> [p \in {"utd"} |-> u]] :
       u \in ZeroUtdInputs }
  \cup
  { [selectedProducts |-> <<"ld">>, productInputs |-> [p \in {"ld"} |-> l]] :
       l \in ZeroLdInputs }
  \cup
  { [selectedProducts |-> <<"utd", "ld">>,
     productInputs |-> [p \in {"utd", "ld"} |-> IF p = "utd" THEN u ELSE l]] :
       u \in {v \in ZeroUtdInputs : v.count = 0 /\ v.existingVariant = "" /\ ~v.changeInStats},
       l \in {v \in ZeroLdInputs : v.expiringAmount = 0 /\ v.existingVariant = "BASE PKG"} }

\* utd renewals: every recorded variant (none, the three of the catalog, one
\* the catalog does not list) against every target, head counts and expiring
\* amounts on both sides of each other
RenewalUtdInputs ==
  { [count |-> c, variant |-> t, baseDiscount |-> 0, expiringAmount |-> e,
     existingVariant |-> x, changeInStats |-> s] :
       c \in {20, 100}, t \in UtdVariantNames, e \in {5000, 30000},
       x \in UtdVariantNames \cup {"", "LEGACY"}, s \in BOOLEAN }

\* ld renewals: every recorded variant (or none) against every target
RenewalLdInputs ==
  { [count |-> 50, variant |-> t, baseDiscount |-> 0, expiringAmount |-> 9000,
     existingVariant |-> x, changeInStats |-> s] :
       t \in LdVariantNames, x \in LdVariantNames \cup {""}, s \in BOOLEAN }

RenewalSelections ==
  { [selectedProducts |-> <<"utd">>, productInputs |-> [p \in {"utd"} |-> u]] :
       u \in RenewalUtdInputs }
  \cup
  { [selectedProducts |-> <<"ld">>, productInputs |-> [p \in {"ld"} |-> l]] :
       l \in RenewalLdInputs }
  \cup
  { [selectedProducts |-> <<"utd", "ld">>,
     productInputs |-> [p \in {"utd", "ld"} |-> IF p = "utd" THEN u ELSE l]] :
       u \in {v \in RenewalUtdInputs :
                 /\ v.count = 100 /\ v.expiringAmount = 5000
                 /\ v.existingVariant \in {"ANYWHERE", "UTDEE"} /\ v.variant = "UTDEE"},
       l \in {v \in RenewalLdInputs :
                 /\ v.existingVariant = "BASE PKG" /\ ~v.changeInStats
                 /\ v.variant \in {"BASE PKG", "BASE PKG+FLINK"}} }

(***************************************************************************)
(* The engine as a state machine: one call of calculatePricing, step by    *)
(* step, on a configuration chosen at the start                            *)
(***************************************************************************)
VARIABLES config, pc, year1ProductNets, totalRenewalBaseForACV, productNotes,
          floorTriggered, productSchedules, i, yearlyResults, totals,
          productNetTotals, output, history, form

vars == <<config, pc, year1ProductNets, totalRenewalBaseForACV, productNotes,
          floorTriggered, productSchedules, i, yearlyResults, totals,
          productNetTotals, output, history, form>>

Init ==
  /\ \/ \E dealType \in {"NEW_LOGO", "RENEWAL"},
           channel \in {"DIRECT", "FULFILMENT", "PARTNER_SOURCED"},
           years \in 1..MaxYears, method \in {"MYFPI", "MYPP"},
           applyWHT \in BOOLEAN, flatPricing \in BOOLEAN, rounding \in BOOLEAN,
           sel \in Selections :
          \E rc \in RateChoices(years) :
            config = MkConfig(dealType, channel, years, method, applyWHT, flatPricing,
                              rounding, sel, rc, [p \in {"utd", "ld"} |-> 5])
     \/ config \in ScenarioConfigs
     \/ config \in ConversionConfigs
  /\ pc = "step1"
  /\ year1ProductNets = <<>>
  /\ totalRenewalBaseForACV = RZero
  /\ productNotes = <<>>
  /\ floorTriggered = FALSE
  /\ productSchedules = <<>>
  /\ i = 0
  /\ yearlyResults = <<>>
  /\ totals = ZeroTotals
  /\ productNetTotals = <<>>
  /\ output = <<>>
  /\ history = <<>>
  /\ form = <<>>

\* a call on a configuration with gaps
InitIncomplete ==
  /\ \E dealType \in {"NEW_LOGO", "RENEWAL"}, channel \in {"DIRECT", "FULFILMENT"},
        years \in 1..MaxYears, method \in {"MYFPI", "MYPP"},
        applyWHT \in BOOLEAN, rounding \in BOOLEAN, sel \in IncompleteSelections :
       \E rc \in IncompleteRates(years) :
         config = MkConfig(dealType, channel, years, method, applyWHT, FALSE, rounding,
                           sel, rc, rc.renewalUpliftRates)
  /\ pc = "step1"
  /\ year1ProductNets = <<>>
  /\ totalRenewalBaseForACV = RZero
  /\ productNotes = <<>>
  /\ floorTriggered = FALSE
  /\ productSchedules = <<>>
  /\ i = 0
  /\ yearlyResults = <<>>
  /\ totals = ZeroTotals
  /\ productNetTotals = <<>>
  /\ output = <<>>
  /\ history = <<>>
  /\ form = <<>>

\* a call on a two-year renewal through a reseller
InitRenewal ==
  /\ \E applyWHT \in BOOLEAN, sel \in RenewalSelections, uplift \in {0, 5, 8} :
       config = MkConfig("RENEWAL", "FULFILMENT", 2, "MYFPI", applyWHT, FALSE, FALSE, sel,
                         [rates |-> <<0, 25>>, productRates |-> <<>>],
                         [p \in {"utd", "ld"} |-> uplift])
  /\ pc = "step1"
  /\ year1ProductNets = <<>>
  /\ totalRenewalBaseForACV = RZero
  /\ productNotes = <<>>
  /\ floorTriggered = FALSE
  /\ productSchedules = <<>>
  /\ i = 0
  /\ yearlyResults = <<>>
  /\ totals = ZeroTotals
  /\ productNetTotals = <<>>
  /\ output = <<>>
  /\ history = <<>>
  /\ form = <<>>

\* a call on a two-year deal with zero inputs
InitZero ==
  /\ \E dealType \in {"NEW_LOGO", "RENEWAL"}, method \in {"MYFPI", "MYPP"},
        applyWHT \in BOOLEAN, sel \in ZeroSelections :
       config = MkConfig(dealType, "FULFILMENT", 2, method, applyWHT, FALSE, FALSE, sel,
                         [rates |-> <<0, 25>>, productRates |-> <<>>],
                         [p \in {"utd", "ld"} |-> 5])
  /\ pc = "step1"
  /\ year1ProductNets = <<>>
  /\ totalRenewalBaseForACV = RZero
  /\ productNotes = <<>>
  /\ floorTriggered = FALSE
  /\ productSchedules = <<>>
  /\ i = 0
  /\ yearlyResults = <<>>
  /\ totals = ZeroTotals
  /\ productNetTotals = <<>>
  /\ output = <<>>
  /\ history = <<>>
  /\ form = <<>>

\* Step 1: year-1 items of every selected product
ResolveYear1 ==
  /\ pc = "step1"
  /\ \E s1 \in {step1(config)} :
       /\ year1ProductNets' = s1.nets
       /\ totalRenewalBaseForACV' = s1.totalRenewalBaseForACV
       /\ productNotes' = s1.notes
  /\ pc' = "step2"
  /\ UNCHANGED <<form, history, config, floorTriggered, productSchedules, i, yearlyResults, totals,
                 productNetTotals, output>>

\* Step 2: floor logic
ApplyFloor ==
  /\ pc = "step2"
  /\ \E s2 \in {step2(year1ProductNets, config.selectedProducts, config.applyWHT)} :
       /\ year1ProductNets' = s2.nets
       /\ productNotes' = productNotes \o s2.notes
       /\ floorTriggered' = s2.floorTriggered
  /\ pc' = "step3"
  /\ UNCHANGED <<form, history, config, totalRenewalBaseForACV, productSchedules, i, yearlyResults,
                 totals, productNetTotals, output>>

\* Step 3: multi-year projection
ProjectSchedules ==
  /\ pc = "step3"
  /\ productSchedules' = step3(config, year1ProductNets)
  /\ pc' = "step3_5"
  /\ UNCHANGED <<form, history, config, year1ProductNets, totalRenewalBaseForACV, productNotes,
                 floorTriggered, i, yearlyResults, totals, productNetTotals, output>>

\* Step 3.5: flat pricing
ApplyFlatPricing ==
  /\ pc = "step3_5"
  /\ productSchedules' = step3_5(config, productSchedules)
  /\ pc' = "step3_6"
  /\ UNCHANGED <<form, history, config, year1ProductNets, totalRenewalBaseForACV, productNotes,
                 floorTriggered, i, yearlyResults, totals, productNetTotals, output>>

\* Step 3.6: rounding; then the initialisation of the Step-4 accumulators
ApplyRounding ==
  /\ pc = "step3_6"
  /\ productSchedules' = step3_6(config, productSchedules)
  /\ productNetTotals' = [p \in DOMAIN year1ProductNets |-> RZero]
  /\ pc' = "step4"
  /\ UNCHANGED <<form, history, config, year1ProductNets, totalRenewalBaseForACV, productNotes,
                 floorTriggered, i, yearlyResults, totals, output>>

\* Step 4: one iteration of the loop over the years
AggregateYear ==
  /\ pc = "step4"
  /\ loopContinues(i, config.years)
  /\ \E yr \in {yearResult(config, productSchedules, productNotes, floorTriggered, i)} :
       /\ yearlyResults' = Append(yearlyResults, yr)
       /\ totals' = addYear(totals, yr)
       /\ productNetTotals' = addProductNets(productNetTotals, yr)
  /\ i' = i + 1
  /\ UNCHANGED <<form, history, config, pc, year1ProductNets, totalRenewalBaseForACV, productNotes,
                 floorTriggered, productSchedules, output>>

\* Step 5: splits, and the return
ComputeSplits ==
  /\ pc = "step4"
  /\ ~loopContinues(i, config.years)
  /\ output' = step5(config, yearlyResults, totals, productNetTotals,
                     totalRenewalBaseForACV)
  /\ pc' = "done"
  /\ UNCHANGED <<form, history, config, year1ProductNets, totalRenewalBaseForACV, productNotes,
                 floorTriggered, productSchedules, i, yearlyResults, totals,
                 productNetTotals>>

Next ==
  \/ ResolveYear1
  \/ ApplyFloor
  \/ ProjectSchedules
  \/ ApplyFlatPricing
  \/ ApplyRounding
  \/ AggregateYear
  \/ ComputeSplits

Spec == Init /\ [][Next]_vars

\* variant: yearlyResults lives outside the function and is not emptied on entry
CallAgain_keepsResults ==
  /\ pc = "done"
  /\ Len(history) + 1 < MaxCalls
  /\ history' = Append(history, [config |-> config, output |-> output])
  /\ config' \in {config} \cup {history[k].config : k \in 1..Len(history)}
                \cup ScenarioConfigs
  /\ pc' = "step1"
  /\ year1ProductNets' = <<>>
  /\ totalRenewalBaseForACV' = RZero
  /\ productNotes' = <<>>
  /\ floorTriggered' = FALSE
  /\ productSchedules' = <<>>
  /\ i' = 0
  /\ totals' = ZeroTotals
  /\ productNetTotals' = <<>>
  /\ output' = <<>>
  /\ UNCHANGED <<form, yearlyResults>>

\* the entry of a further call, after the previous one has returned: on the
\* same configuration, on one called before, or on a scenario configuration;
\* every local of the function is created afresh.  history records the
\* configuration and the output of the calls that returned.
CallAgain ==
  /\ pc = "done"
  /\ Len(history) + 1 < MaxCalls
  /\ history' = Append(history, [config |-> config, output |-> output])
  /\ config' \in {config} \cup {history[k].config : k \in 1..Len(history)}
                \cup ScenarioConfigs
  /\ pc' = "step1"
  /\ year1ProductNets' = <<>>
  /\ totalRenewalBaseForACV' = RZero
  /\ productNotes' = <<>>
  /\ floorTriggered' = FALSE
  /\ productSchedules' = <<>>
  /\ i' = 0
  /\ yearlyResults' = <<>>
  /\ totals' = ZeroTotals
  /\ productNetTotals' = <<>>
  /\ output' = <<>>
  /\ UNCHANGED form

\* two-year renewals through a reseller, each method, with and without rounding
InitRepeated ==
  /\ \/ \E method \in {"MYFPI", "MYPP"}, rounding \in BOOLEAN, sel \in Selections :
          config = MkConfig("RENEWAL", "FULFILMENT", 2, method, TRUE, FALSE, rounding, sel,
                            [rates |-> MixedRates(2), productRates |-> <<>>],
                            [p \in {"utd", "ld"} |-> 5])
     \/ config \in ScenarioConfigs
  /\ pc = "step1"
  /\ year1ProductNets = <<>>
  /\ totalRenewalBaseForACV = RZero
  /\ productNotes = <<>>
  /\ floorTriggered = FALSE
  /\ productSchedules = <<>>
  /\ i = 0
  /\ yearlyResults = <<>>
  /\ totals = ZeroTotals
  /\ productNetTotals = <<>>
  /\ output = <<>>
  /\ history = <<>>
  /\ form = <<>>

NextRepeated ==
  \/ Next
  \/ CallAgain

SpecRepeated == InitRepeated /\ [][NextRepeated]_vars

SpecIncomplete == InitIncomplete /\ [][Next]_vars

SpecRenewal == InitRenewal /\ [][Next]_vars

SpecZero == InitZero /\ [][Next]_vars

\* a call on a one-year deal whose Steps 3.6 and 4 are followed in binary64
InitBinary64 ==
  /\ config \in Binary64Configs
  /\ pc = "step1"
  /\ year1ProductNets = <<>>
  /\ totalRenewalBaseForACV = RZero
  /\ productNotes = <<>>
  /\ floorTriggered = FALSE
  /\ productSchedules = <<>>
  /\ i = 0
  /\ yearlyResults = <<>>
  /\ totals = ZeroTotals
  /\ productNetTotals = <<>>
  /\ output = <<>>
  /\ history = <<>>
  /\ form = <<>>

\* the binary64 number nearest to the exact value val (val itself when val
\* is an integer below 2^53)
DblOfExact(val) == DblDiv(DblFromInt(val.w * val.d + val.n), DblFromInt(val.d))

\* Step 3.6 with every operation rounded as the binary64 operations are
ApplyRounding64 ==
  /\ pc = "step3_6"
  /\ config.rounding
  /\ productSchedules' =
       [p \in DOMAIN productSchedules |->
          [k \in 1..config.years |->
             roundValue64(DblOfExact(productSchedules[p][k]), config.channel)]]
  /\ pc' = "step4"
  /\ UNCHANGED <<form, history, config, year1ProductNets, totalRenewalBaseForACV, productNotes,
                 floorTriggered, i, yearlyResults, totals, productNetTotals, output>>

RECURSIVE DblSumFrom(_, _, _)
\* yearSum after the products from position k on were added to acc, in order
DblSumFrom(vals, k, acc) ==
  IF k > Len(vals) THEN acc ELSE DblSumFrom(vals, k + 1, DblAdd(acc, vals[k]))

\* the gross figures of the Step-4 iteration of a one-year deal, in
\* binary64: every product's value and the year's sum are converted to SAR
\* separately
ConvertYear64 ==
  /\ pc = "step4"
  /\ i = 0
  /\ \E vals \in {[k \in 1..Len(config.selectedProducts) |->
                     productSchedules[config.selectedProducts[k]][1]]} :
       \E yearSum \in {DblSumFrom(vals, 1, DblFromInt(0))} :
         yearlyResults' =
           <<[year |-> 1,
              breakdown |-> [k \in 1..Len(vals) |->
                               [id |-> config.selectedProducts[k], gross |-> vals[k],
                                grossSAR |-> convertToSAR64(vals[k])]],
              grossUSD |-> yearSum,
              grossSAR |-> convertToSAR64(yearSum)]>>
  /\ i' = 1
  /\ pc' = "done"
  /\ UNCHANGED <<form, history, config, year1ProductNets, totalRenewalBaseForACV, productNotes,
                 floorTriggered, productSchedules, totals, productNetTotals, output>>

NextBinary64 ==
  \/ ResolveYear1
  \/ ApplyFloor
  \/ ProjectSchedules
  \/ ApplyFlatPricing
  \/ ApplyRounding64
  \/ ConvertYear64

SpecBinary64 == InitBinary64 /\ [][NextBinary64]_vars

\* a call on a new-logo deal of two or more years whose rates may be -100 %
InitUnguarded ==
  /\ \E channel \in {"DIRECT", "FULFILMENT"}, years \in 2..MaxYears,
        method \in {"MYFPI", "MYPP"}, flatPricing \in BOOLEAN, rounding \in BOOLEAN,
        sel \in UnguardedSelections :
       \E r \in UnguardedRates(years) :
         config = MkConfig("NEW_LOGO", channel, years, method, FALSE, flatPricing, rounding,
                           sel, [rates |-> r, productRates |-> <<>>], <<>>)
  /\ pc = "step1"
  /\ year1ProductNets = <<>>
  /\ totalRenewalBaseForACV = RZero
  /\ productNotes = <<>>
  /\ floorTriggered = FALSE
  /\ productSchedules = <<>>
  /\ i = 0
  /\ yearlyResults = <<>>
  /\ totals = ZeroTotals
  /\ productNetTotals = <<>>
  /\ output = <<>>
  /\ history = <<>>
  /\ form = <<>>

SpecUnguarded == InitUnguarded /\ [][Next]_vars

(***************************************************************************)
(* The form (App component): the React state handleInputChange reads and   *)
(* writes, and the handlers that change it                                 *)
(***************************************************************************)
\* The form's initial state: the useState defaults.
FormDefaults ==
  [ dealType |-> "NEW_LOGO",
    applyWHT |-> TRUE,
    utdRateVal |-> 8,
    renewalUpliftUTD |-> 8,
    productInputs |->
      [ utd |-> [ count |-> 100, variant |-> "ANYWHERE",
                  existingVariant |-> "ANYWHERE", changeInStats |-> FALSE,
                  forceHeadcountOverride |-> FALSE ],
        ld |-> [ count |-> 50, variant |-> "BASE PKG",
                 existingVariant |-> "BASE PKG", changeInStats |-> FALSE,
                 forceHeadcountOverride |-> FALSE ] ] ]

\* The values the form's inputs hand to handleInputChange: a head count typed
\* into the count box, a variant picked in a select, the stats checkbox.
FormCounts == {100, 149, 150, 200}

FormVariants(id) ==
  IF id = "utd" THEN {"ANYWHERE", "UTDADV", "UTDEE"}
  ELSE {"BASE PKG", "BASE PKG+FLINK"}

FormValues(id, field) ==
  CASE field = "count" -> IF id = "utd" THEN FormCounts ELSE {50}
    [] field \in {"variant", "existingVariant"} -> FormVariants(id)
    [] field = "changeInStats" -> BOOLEAN

FormRates == {5, 8}

\* handleInputChange(id, field, value): the new productInputs, following the
\* updater passed to setProductInputs.
handleInputChange_productInputs(f, id, field, value) ==
  LET prevInput == f.productInputs[id]
      written == [prevInput EXCEPT ![field] = value]
      minCount ==
        IF id = "utd" /\ field = "variant" /\ value = "UTDEE" /\ written.count < 150
        THEN [written EXCEPT !.count = 150]
        ELSE written
      reset ==
        IF f.dealType = "RENEWAL" /\ field = "existingVariant"
        THEN [minCount EXCEPT !.variant = value,
                              !.changeInStats = FALSE,
                              !.forceHeadcountOverride = FALSE]
        ELSE minCount
  IN  [f.productInputs EXCEPT ![id] = reset]

\* handleInputChange(id, field, value): the whole form after the call, with the
\* setApplyWHT, setUtdRateVal and setRenewalUpliftUTD calls the updater makes.
handleInputChange(f, id, field, value) ==
  LET toUtdee == f.dealType = "RENEWAL" /\ field = "existingVariant"
                   /\ value = "UTDEE" /\ id = "utd"
  IN  [f EXCEPT !.productInputs = handleInputChange_productInputs(f, id, field, value),
                !.applyWHT = IF field = "changeInStats" THEN value = TRUE ELSE @,
                !.utdRateVal = IF toUtdee THEN 8 ELSE @,
                !.renewalUpliftUTD = IF toUtdee THEN 8 ELSE @]

InitForm ==
  /\ form = FormDefaults
  /\ history = <<>>
  /\ config = <<>>
  /\ pc = "form"
  /\ year1ProductNets = <<>>
  /\ totalRenewalBaseForACV = RInt(0)
  /\ productNotes = <<>>
  /\ floorTriggered = FALSE
  /\ productSchedules = <<>>
  /\ i = 0
  /\ yearlyResults = <<>>
  /\ totals = ZeroTotals
  /\ productNetTotals = <<>>
  /\ output = <<>>

\* A change of an input of the form: one handleInputChange call.  history keeps
\* the call and the utd target variant it found.
HandleInputChange ==
  /\ pc = "form"
  /\ \E id \in {"utd", "ld"} :
       \E field \in {"count", "variant", "existingVariant", "changeInStats"} :
         \E value \in FormValues(id, field) :
           /\ form' = handleInputChange(form, id, field, value)
           /\ history' = << [ id |-> id, field |-> field,
                              variantBefore |-> form.productInputs.utd.variant ] >>
  /\ UNCHANGED <<config, pc, year1ProductNets, totalRenewalBaseForACV,
                 productNotes, floorTriggered, productSchedules, i,
                 yearlyResults, totals, productNetTotals, output>>

\* The deal type select, with the effect that follows a change of dealType.
SetDealType ==
  /\ pc = "form"
  /\ \E d \in {"NEW_LOGO", "RENEWAL"} :
       /\ d # form.dealType
       /\ form' = [form EXCEPT !.dealType = d, !.applyWHT = (d # "RENEWAL")]
  /\ history' = <<>>
  /\ UNCHANGED <<config, pc, year1ProductNets, totalRenewalBaseForACV,
                 productNotes, floorTriggered, productSchedules, i,
                 yearlyResults, totals, productNetTotals, output>>

\* The UTD rate and UTD uplift inputs.
SetUtdRateVal ==
  /\ pc = "form"
  /\ \E v \in FormRates : form' = [form EXCEPT !.utdRateVal = v]
  /\ history' = <<>>
  /\ UNCHANGED <<config, pc, year1ProductNets, totalRenewalBaseForACV,
                 productNotes, floorTriggered, productSchedules, i,
                 yearlyResults, totals, productNetTotals, output>>

SetRenewalUpliftUTD ==
  /\ pc = "form"
  /\ \E v \in FormRates : form' = [form EXCEPT !.renewalUpliftUTD = v]
  /\ history' = <<>>
  /\ UNCHANGED <<config, pc, year1ProductNets, totalRenewalBaseForACV,
                 productNotes, floorTriggered, productSchedules, i,
                 yearlyResults, totals, productNetTotals, output>>

NextForm == HandleInputChange \/ SetDealType \/ SetUtdRateVal \/ SetRenewalUpliftUTD

SpecForm == InitForm /\ [][NextForm]_vars

Done == pc = "done"

\* the stepwise run returns what the function returns
RunMatchesFunction == Done => output = calculatePricing(config)

(***************************************************************************)
(* Properties                                                              *)
(***************************************************************************)
NumProducts == Len(config.selectedProducts)

\* C1: calculatePricing returns exactly `years` yearly results, in order,
\* and entry i (0-based) carries year = i + 1.
C1_ScheduleLength ==
  Done => /\ Len(output.yearlyResults) = config.years
          /\ \A k \in 1..Len(output.yearlyResults) : output.yearlyResults[k].year = k

C1_Witness == Done /\ config.years >= 3 /\ Len(output.yearlyResults) >= 3

\* C2: in every year the breakdown's gross values sum to the year's grossUSD,
\* and totalGrossUSD is the sum of the years' grossUSD.
C2_AggregateConsistency ==
  Done =>
    /\ \A k \in 1..Len(output.yearlyResults) :
         LET yr == output.yearlyResults[k]
         IN  /\ Len(yr.breakdown) = NumProducts
             /\ RSum([j \in 1..Len(yr.breakdown) |-> yr.breakdown[j].gross]) = yr.grossUSD
    /\ output.totalGrossUSD =
         RSum([k \in 1..Len(output.yearlyResults) |-> output.yearlyResults[k].grossUSD])

C2_Witness ==
  /\ Done /\ NumProducts = 2 /\ config.years >= 2 /\ config.channel # "DIRECT"
  /\ output.yearlyResults[1].grossUSD # output.yearlyResults[2].grossUSD
  /\ RLt(RZero, output.totalGrossUSD)

\* C3: upsellACV is never negative; on a renewal it is
\* max(0, acvUSD - renewalBaseACV) and on a new logo it is 0.
C3_UpsellNonNegative ==
  Done =>
    /\ RLe(RZero, output.upsellACV)
    /\ config.dealType = "RENEWAL" =>
         output.upsellACV =
           (IF RLt(output.renewalBaseACV, output.acvUSD)
            THEN RSub(output.acvUSD, output.renewalBaseACV) ELSE RZero)
    /\ config.dealType = "NEW_LOGO" => output.upsellACV = RZero

\* a renewal whose ACV is below its renewal base: the clamp decides
C3_Witness ==
  /\ Done /\ config.dealType = "RENEWAL"
  /\ RLt(output.acvUSD, output.renewalBaseACV)

\* C4: per year vatSAR = 0.15 * grossSAR and grandTotalSAR = grossSAR + vatSAR;
\* in aggregate totalGrandTotalSAR = totalGrossSAR + totalVatSAR and
\* totalVatSAR = 0.15 * totalGrossSAR.
C4_VatAndGrandTotal ==
  Done =>
    /\ \A k \in 1..Len(output.yearlyResults) :
         LET yr == output.yearlyResults[k]
         IN  /\ yr.vatSAR = RMul(R(15, 100), yr.grossSAR)
             /\ yr.grandTotalSAR = RAdd(yr.grossSAR, yr.vatSAR)
    /\ output.totalGrandTotalSAR = RAdd(output.totalGrossSAR, output.totalVatSAR)
    /\ output.totalVatSAR = RMul(R(15, 100), output.totalGrossSAR)

C4_Witness ==
  /\ Done /\ config.years >= 2 /\ config.channel = "FULFILMENT"
  /\ RLt(RZero, output.totalVatSAR)

\* C5 (as written): VAT is channel-gated, so a DIRECT configuration has
\* vatSAR = 0 in every year and totalVatSAR = 0.
C5_DirectHasNoVat ==
  (Done /\ config.channel = "DIRECT") =>
    /\ \A k \in 1..Len(output.yearlyResults) :
         /\ output.yearlyResults[k].vatSAR = RZero
         /\ output.yearlyResults[k].grandTotalSAR = output.yearlyResults[k].grossSAR
    /\ output.totalVatSAR = RZero

\* C5 (amended): the engine does not gate VAT by channel: a DIRECT
\* configuration carries, like the indirect channels, a vatSAR of 15 % of
\* grossSAR in every year (positive whenever the year's gross is positive)
\* and grandTotalSAR includes it; only currencyToDisplay depends on the
\* channel (USD for DIRECT, SAR otherwise).
C5_VatOnEveryChannel ==
  Done =>
    /\ \A k \in 1..Len(output.yearlyResults) :
         LET yr == output.yearlyResults[k]
         IN  /\ RMul(RInt(100), yr.vatSAR) = RMul(RInt(15), yr.grossSAR)
             /\ RLt(RZero, yr.grossUSD) =>
                  /\ RLt(RZero, yr.vatSAR)
                  /\ RLt(yr.grossSAR, yr.grandTotalSAR)
    /\ RLt(RZero, output.totalGrossUSD) => RLt(RZero, output.totalVatSAR)
    /\ output.currencyToDisplay = (IF config.channel = "DIRECT" THEN "USD" ELSE "SAR")

C5_Witness ==
  /\ Done /\ config.channel = "DIRECT"
  /\ RLt(RZero, output.totalVatSAR)
  /\ output.currencyToDisplay = "USD"

\* C6: the floor step is idempotent: applied again to the year-1 values it
\* produced, it changes no value, raises no flag and appends no note.
C6_FloorIdempotent ==
  pc = "step3" =>
    LET again == step2(year1ProductNets, config.selectedProducts, config.applyWHT)
    IN  /\ again.nets = year1ProductNets
        /\ again.floorTriggered = FALSE
        /\ again.notes = <<>>

\* the floor step has just raised a value
C6_Witness == pc = "step3" /\ floorTriggered

HasUTD == \E k \in 1..NumProducts : config.selectedProducts[k] = "utd"

HasLD == \E k \in 1..NumProducts : config.selectedProducts[k] = "ld"

\* 4000 and 6500, divided by 0.95 under WHT
C7_ComboFloor == IF config.applyWHT THEN R(4000 * 100, 95) ELSE RInt(4000)

C7_StandardFloor == IF config.applyWHT THEN R(6500 * 100, 95) ELSE RInt(6500)

\* C7: with utd and ld both selected only ld is raised, to
\* max(value, comboFloor), and utd is left alone; with exactly one of them
\* selected that product becomes max(value, standardFloor).
C7_FloorTarget ==
  [][ pc = "step2" =>
        /\ (HasUTD /\ HasLD) =>
             /\ year1ProductNets'["ld"] = RMax(year1ProductNets["ld"], C7_ComboFloor)
             /\ year1ProductNets'["utd"] = year1ProductNets["utd"]
        /\ (HasUTD /\ ~HasLD) =>
             year1ProductNets'["utd"] = RMax(year1ProductNets["utd"], C7_StandardFloor)
        /\ (HasLD /\ ~HasUTD) =>
             year1ProductNets'["ld"] = RMax(year1ProductNets["ld"], C7_StandardFloor)
        /\ DOMAIN year1ProductNets' = DOMAIN year1ProductNets ]_vars

\* a combo deal under WHT in which ld was raised to 4000/0.95 while utd,
\* itself below the standard floor, was left alone
C7_Witness ==
  /\ pc = "step3" /\ floorTriggered /\ HasUTD /\ HasLD /\ config.applyWHT
  /\ year1ProductNets["ld"] = R(400000, 95)
  /\ RLt(year1ProductNets["utd"], C7_StandardFloor)

\* the same configuration with flatPricing switched
FlatSwitched == [config EXCEPT !.flatPricing = ~config.flatPricing]

\* C8 (as written): enabling flatPricing never changes totalGrossUSD, for
\* every configuration, rounding on or off.
C8_FlatPreservesTotalAlways ==
  Done => output.totalGrossUSD = calculatePricing(FlatSwitched).totalGrossUSD

\* C8 (amended): with rounding off, the output with flatPricing = true has
\* the same totalGrossUSD as the output of the same configuration with
\* flatPricing = false; only the per-year distribution differs.  (With
\* rounding on, the rounding of Step 3.6 follows the flattening and the
\* totals can differ.)
C8_FlatPreservesTotal ==
  (Done /\ ~config.rounding) =>
    output.totalGrossUSD = calculatePricing(FlatSwitched).totalGrossUSD

\* a flattened multi-year schedule whose first year differs from the
\* unflattened one
C8_Witness ==
  /\ Done /\ config.flatPricing /\ ~config.rounding /\ config.years >= 2
  /\ output.yearlyResults[1].grossUSD #
       calculatePricing(FlatSwitched).yearlyResults[1].grossUSD

\* rate[i] of the claim, i counted from 0: productRates[product] when
\* present, otherwise the global rates; a missing entry counts as 0
C9_Rate(p, i0) ==
  LET arr == IF p \in DOMAIN config.productRates THEN config.productRates[p]
             ELSE config.rates
  IN  IF i0 + 1 <= Len(arr) THEN arr[i0 + 1] ELSE 0

\* schedule[i] of product number j, read from the output (i counted from 0)
C9_Schedule(j, i0) == output.yearlyResults[i0 + 1].breakdown[j].gross

\* C9: with flatPricing and rounding off, under MYFPI schedule[0] is the
\* post-floor year-1 value and schedule[i] = schedule[i-1] * (1 + rate[i]/100);
\* under MYPP schedule[years-1] is the post-floor year-1 value and
\* schedule[i] = schedule[i+1] / (1 + rate[i+1]/100).
C9_ProjectorRecurrence ==
  (Done /\ ~config.flatPricing /\ ~config.rounding) =>
    \A j \in 1..NumProducts :
      LET p == config.selectedProducts[j]
          n == config.years
      IN  IF config.method = "MYFPI"
          THEN /\ C9_Schedule(j, 0) = year1ProductNets[p]
               /\ \A i0 \in 1..(n - 1) :
                    C9_Schedule(j, i0) =
                      RMul(C9_Schedule(j, i0 - 1), R(100 + C9_Rate(p, i0), 100))
          ELSE /\ C9_Schedule(j, n - 1) = year1ProductNets[p]
               /\ \A i0 \in 0..(n - 2) :
                    C9_Schedule(j, i0) =
                      RDiv(C9_Schedule(j, i0 + 1), R(100 + C9_Rate(p, i0 + 1), 100))

\* a three-year MYPP combo deal in which utd follows its own rate array and
\* ld the global one, each year priced differently
C9_Witness ==
  /\ Done /\ ~config.flatPricing /\ ~config.rounding
  /\ config.years >= 3 /\ config.method = "MYPP" /\ NumProducts = 2
  /\ "utd" \in DOMAIN config.productRates
  /\ C9_Schedule(1, 0) # C9_Schedule(1, 1)
  /\ C9_Schedule(2, 1) # C9_Schedule(2, 2)

C10_ListPrice(p, v) ==
  IF p = "utd"
  THEN (CASE v = "ANYWHERE" -> R(259, 1) [] v = "UTDADV" -> R(270, 1)
          [] v = "UTDEE" -> R(265, 1))
  ELSE (CASE v = "BASE PKG" -> R(80, 1) [] v = "BASE PKG+FLINK" -> R(92, 1)
          [] v = "BASE PKG+FLINK+IPE" -> R(108, 1) [] v = "EE-Combo" -> R(265, 4)
          [] v = "EE-Combo+FLINK" -> R(313, 4) [] v = "EE-Combo+FLINK+IPE" -> R(377, 4))

C10_Expected(p) ==
  LET inp == config.productInputs[p]
      net == RMul(RMul(RInt(inp.count), C10_ListPrice(p, inp.variant)),
                  R(100 - inp.baseDiscount, 100))
  IN  IF config.applyWHT THEN RMul(net, R(100, 95)) ELSE net

\* C10: on a NEW_LOGO deal each product's pre-floor year-1 value is
\* count * listPrice(variant) * (1 - baseDiscount/100), divided by 0.95 under
\* WHT; in the standalone scenario (100 heads of ANYWHERE, WHT on, DIRECT,
\* MYFPI, 3 years, 8 %) year 1 is 25900/0.95 = 27,263.16 without floor
\* adjustment and year 2 is year 1 * 1.08.
C10_NewLogoYear1 ==
  /\ (pc = "step2" /\ config.dealType = "NEW_LOGO") =>
       \A p \in DOMAIN year1ProductNets : year1ProductNets[p] = C10_Expected(p)
  /\ (Done /\ config \in ScenarioConfigs) =>
       LET y1 == output.yearlyResults[1]
           y2 == output.yearlyResults[2]
       IN  /\ y1.grossUSD = R(25900 * 100, 95)
           /\ RLe(R(2726315, 100), y1.grossUSD) /\ RLt(y1.grossUSD, R(2726317, 100))
           /\ y1.floorAdjusted = FALSE
           /\ y2.grossUSD = RMul(y1.grossUSD, R(108, 100))

C10_Witness ==
  /\ Done /\ config \in ScenarioConfigs
  /\ config.rates = <<8, 8, 8>>
  /\ output.yearlyResults[2].grossUSD = R(25900 * 108, 95)

\* the variant a product is renewed from: existingVariant, or the target
\* variant when none is recorded
C11_Existing(p) ==
  LET inp == config.productInputs[p]
  IN  IF inp.existingVariant = "" THEN inp.variant ELSE inp.existingVariant

\* the renewal price of an unchanged utd before the stats check
C11_UnchangedUtdPrice ==
  LET inp == config.productInputs["utd"]
  IN  IF inp.variant = "UTDEE" THEN RMul(RInt(inp.expiringAmount), R(108, 100))
      ELSE RMul(RInt(inp.expiringAmount), R(100 + config.renewalUpliftRates["utd"], 100))

\* a renewal in which no product changes variant and no stats override fires
C11_NothingChanges ==
  /\ config.dealType = "RENEWAL"
  /\ \A k \in 1..NumProducts :
       LET p == config.selectedProducts[k]
       IN  /\ C11_Existing(p) = config.productInputs[p].variant
           /\ p = "utd" => ~(/\ config.productInputs[p].changeInStats
                              /\ RLt(C11_UnchangedUtdPrice, C10_Expected("utd")))

\* C11: a renewal in which no product changes variant and no stats override
\* fires has upsellACV = 0, the floor-raised combo case and multi-year MYFPI
\* deals with positive rates included.
C11_NoUpsellWhenNothingChanges ==
  (Done /\ C11_NothingChanges) => output.upsellACV = RZero

\* the combo case of the claim: ld renewed BASE PKG to BASE PKG from 3000 at
\* 5 %, raised to the combo floor, utd unchanged, one year
C11_ComboCase ==
  /\ Done /\ C11_NothingChanges /\ HasUTD /\ HasLD /\ config.years = 1
  /\ ~config.rounding /\ ~config.applyWHT
  /\ config.productInputs["ld"].expiringAmount = 3000
  /\ output.yearlyResults[1].floorAdjusted

\* what the engine returns in the combo case: the 850 the floor added to ld
C11_ComboUpsell850 == C11_ComboCase => output.upsellACV = RInt(850)

\* C12: a year's grossSAR is the smallest multiple of 10 that is
\* >= grossUSD * 3.76 (for non-negative gross); a year with grossUSD = 1000
\* has grossSAR = 3760, vatSAR = 564 and grandTotalSAR = 4324.
C12_SarConversion ==
  Done =>
    \A k \in 1..Len(output.yearlyResults) :
      LET yr  == output.yearlyResults[k]
          raw == RMul(yr.grossUSD, R(376, 100))
      IN  /\ RLe(RZero, yr.grossUSD) =>
               /\ yr.grossSAR.n = 0 /\ yr.grossSAR.w % 10 = 0
               /\ RLe(raw, yr.grossSAR)
               /\ RLt(RSub(yr.grossSAR, RInt(10)), raw)
          /\ yr.grossUSD = RInt(1000) =>
               /\ yr.grossSAR = RInt(3760)
               /\ yr.vatSAR = RInt(564)
               /\ yr.grandTotalSAR = RInt(4324)

\* a year of exactly 1000 USD, converted and taxed
C12_Witness ==
  /\ Done /\ config \in ConversionConfigs
  /\ output.yearlyResults[1].grossUSD = RInt(1000)
  /\ output.yearlyResults[1].grossSAR = RInt(3760)
  /\ output.yearlyResults[1].grandTotalSAR = RInt(4324)

\* the recognition factor f(dealType, channel, i) of the claim, i from 0
C13_Factor(i0) ==
  IF config.channel = "DIRECT" THEN R(1, 1)
  ELSE IF config.channel = "FULFILMENT"
  THEN (IF config.dealType = "NEW_LOGO" /\ i0 = 0 THEN R(37, 40) ELSE R(19, 20))
  ELSE (IF config.dealType = "NEW_LOGO" /\ i0 = 0 THEN R(17, 20) ELSE R(9, 10))

\* C13: in year index i, netUSD = grossUSD * f(dealType, channel, i) and
\* netSAR = netUSD * 3.76 without rounding; f is 1 for DIRECT, for
\* FULFILMENT 0.95 (0.925 in year 0 of a new logo), for PARTNER_SOURCED
\* 0.90 (0.85 in year 0 of a new logo).
C13_RecognizedRevenue ==
  Done =>
    \A k \in 1..Len(output.yearlyResults) :
      LET yr == output.yearlyResults[k]
      IN  /\ yr.netUSD = RMul(yr.grossUSD, C13_Factor(k - 1))
          /\ yr.netSAR = RMul(yr.netUSD, R(376, 100))

\* a partner-sourced new logo over several years whose first-year netSAR
\* is not a whole number of SAR
C13_Witness ==
  /\ Done /\ config.dealType = "NEW_LOGO" /\ config.channel = "PARTNER_SOURCED"
  /\ config.years >= 2
  /\ output.yearlyResults[1].netSAR.n # 0
  /\ output.yearlyResults[1].netUSD = RMul(output.yearlyResults[1].grossUSD, R(85, 100))
  /\ output.yearlyResults[2].netUSD = RMul(output.yearlyResults[2].grossUSD, R(90, 100))
  /\ RLt(RZero, output.yearlyResults[2].grossUSD)

\* the configuration with every gap filled by the default the claim names
C14_Completed ==
  [config EXCEPT
     !.productInputs =
        [p \in {config.selectedProducts[k] : k \in 1..NumProducts} |->
           IF p \in DOMAIN config.productInputs THEN config.productInputs[p]
           ELSE [count |-> 0, variant |-> "", baseDiscount |-> 0, expiringAmount |-> 0,
                 existingVariant |-> "", changeInStats |-> FALSE]],
     !.renewalUpliftRates =
        [p \in {config.selectedProducts[k] : k \in 1..NumProducts} |->
           IF p \in DOMAIN config.renewalUpliftRates THEN config.renewalUpliftRates[p]
           ELSE 0],
     !.rates = [k \in 1..config.years |->
                  IF k <= Len(config.rates) THEN config.rates[k] ELSE 0],
     !.productRates =
        [p \in DOMAIN config.productRates |->
           [k \in 1..config.years |->
              IF k <= Len(config.productRates[p]) THEN config.productRates[p][k] ELSE 0]]]

C14_OutputFields ==
  {"yearlyResults", "totalGrossUSD", "totalGrossSAR", "totalVatSAR", "totalGrandTotalSAR",
   "totalNetUSD", "totalNetSAR", "productNetTotals", "acvUSD", "netACV", "renewalBaseACV",
   "netRenewalBaseACV", "upsellACV", "netUpsellACV", "currencyToDisplay"}

C14_YearFields ==
  {"year", "breakdown", "grossUSD", "grossSAR", "vatSAR", "grandTotalSAR", "netUSD",
   "netSAR", "floorAdjusted", "notes"}

\* every amount of an output
C14_Amounts(out) ==
  {out.totalGrossUSD, out.totalGrossSAR, out.totalVatSAR, out.totalGrandTotalSAR,
   out.totalNetUSD, out.totalNetSAR, out.acvUSD, out.netACV, out.renewalBaseACV,
   out.netRenewalBaseACV, out.upsellACV, out.netUpsellACV}
  \cup {out.productNetTotals[p] : p \in DOMAIN out.productNetTotals}
  \cup UNION { {out.yearlyResults[k].grossUSD, out.yearlyResults[k].grossSAR,
                out.yearlyResults[k].vatSAR, out.yearlyResults[k].grandTotalSAR,
                out.yearlyResults[k].netUSD, out.yearlyResults[k].netSAR} :
                k \in 1..Len(out.yearlyResults) }

\* out has every field of a CalculationOutput, one result per year with
\* every field of a PricingResult and one breakdown entry per selected
\* product, and every amount is a number
C14_Populated(out) ==
  /\ DOMAIN out = C14_OutputFields
  /\ Len(out.yearlyResults) = config.years
  /\ \A k \in 1..Len(out.yearlyResults) :
       /\ DOMAIN out.yearlyResults[k] = C14_YearFields
       /\ Len(out.yearlyResults[k].breakdown) = NumProducts
  /\ DOMAIN out.productNetTotals = {config.selectedProducts[k] : k \in 1..NumProducts}
  /\ \A a \in C14_Amounts(out) : a.d >= 1 /\ a.n \in 0..(a.d - 1)

\* C14: the engine is total.  On a configuration with an unlisted variant
\* name, a selected product without productInputs entry, a missing renewal
\* uplift or rate arrays shorter than `years`, calculatePricing has a value,
\* every field of it is populated, the stepwise run returns that same kind
\* of output, and the output is the one of the configuration with the gaps
\* filled by the defaults: list price 0, count 0, discount 0, expiring 0,
\* uplift 0, rate 0 %.
C14_Total ==
  /\ pc = "step1" => C14_Populated(calculatePricing(config))
  /\ (pc = "step2" /\ config.dealType = "NEW_LOGO") =>
       \A p \in DOMAIN year1ProductNets :
         (p \notin DOMAIN config.productInputs
            \/ config.productInputs[p].variant \notin UtdVariantNames \cup LdVariantNames)
           => year1ProductNets[p] = RZero
  /\ Done => /\ C14_Populated(output)
             /\ output = calculatePricing(C14_Completed)

\* a three-year renewal of utd and ld with no entry for utd, an unlisted ld
\* variant, no uplift for utd and a rate array one entry short
C14_Witness ==
  /\ Done /\ config.years >= 3 /\ config.dealType = "RENEWAL" /\ NumProducts = 2
  /\ "utd" \notin DOMAIN config.productInputs
  /\ config.productInputs["ld"].variant = "PREMIUM"
  /\ "utd" \notin DOMAIN config.renewalUpliftRates
  /\ Len(config.rates) = config.years - 1
  /\ RLt(RZero, output.totalGrossUSD)

\* C15: calculatePricing is a pure function of its configuration: a call
\* that returns on a configuration an earlier call was made on returns the
\* output that call returned, whatever calls were made in between, and no
\* step of a call changes the configuration.
C15_Pure ==
  /\ [](Done => \A k \in 1..Len(history) :
                   history[k].config = config => history[k].output = output)
  /\ [][pc # "done" => config' = config]_vars

\* a third call returns on the configuration of the first, a call on a
\* different configuration having been made in between
C15_Witness ==
  /\ Done /\ Len(history) = 2
  /\ history[1].config = config /\ history[2].config # config
  /\ history[1].output = output /\ history[2].output # output

\* the configuration with entry i0 (counted from 0) of the global rate array
\* and of every per-product rate array set to v, where the array has it
C16_WithEntry(i0, v) ==
  [config EXCEPT
     !.rates = [k \in 1..Len(config.rates) |-> IF k = i0 + 1 THEN v ELSE config.rates[k]],
     !.productRates =
        [p \in DOMAIN config.productRates |->
           [k \in 1..Len(config.productRates[p]) |->
              IF k = i0 + 1 THEN v ELSE config.productRates[p][k]]]]

C16_Values == {0, 100}

\* C16 (as written): the anchor year's own rate entry has no effect: entry 0
\* under MYFPI, entry years-1 under MYPP.
C16_AnchorEntryIgnored ==
  Done =>
    \A v \in C16_Values :
      output = calculatePricing(C16_WithEntry(IF config.method = "MYFPI" THEN 0
                                              ELSE config.years - 1, v))

\* C16 (amended): rate entry 0 has no effect on the output, under MYFPI and
\* under MYPP alike: two configurations that differ only in entry 0 give
\* equal outputs.  (Under MYPP with years >= 2 entry years-1 is applied: it
\* divides the anchor year to give the year before it.)
C16_EntryZeroIgnored ==
  Done => \A v \in C16_Values : output = calculatePricing(C16_WithEntry(0, v))

\* a MYPP deal over several years whose entry 0 is 100 %: setting it to 0
\* changes nothing, setting entry years-1 to 0 changes the output
C16_Witness ==
  /\ Done /\ config.method = "MYPP" /\ config.years >= 2
  /\ Len(config.rates) = config.years /\ config.rates[1] = 100
  /\ config.rates[config.years] # 0
  /\ output = calculatePricing(C16_WithEntry(0, 0))
  /\ output # calculatePricing(C16_WithEntry(config.years - 1, 0))

\* every rate applied to product p over the contract is positive
C17_RatesPositive(p) == \A i0 \in 1..(config.years - 1) : C9_Rate(p, i0) > 0

\* C17: under MYPP with every applied rate > 0, a positive year-1 base and
\* flatPricing and rounding off, a product's schedule is strictly increasing:
\* the last year is the post-floor base and each year is the year before it
\* raised by its own rate, so each earlier year is cheaper.
C17_MyppIncreasing ==
  (Done /\ config.method = "MYPP" /\ ~config.flatPricing /\ ~config.rounding) =>
    \A j \in 1..NumProducts :
      LET p == config.selectedProducts[j]
          n == config.years
      IN  (C17_RatesPositive(p) /\ RLt(RZero, year1ProductNets[p])) =>
            /\ C9_Schedule(j, n - 1) = year1ProductNets[p]
            /\ \A i0 \in 0..(n - 2) :
                 /\ RLt(C9_Schedule(j, i0), C9_Schedule(j, i0 + 1))
                 /\ RMul(RInt(100), C9_Schedule(j, i0 + 1)) =
                      RMul(RInt(100 + C9_Rate(p, i0 + 1)), C9_Schedule(j, i0))

\* a MYPP deal over three years or more with positive rates on utd
C17_Witness ==
  /\ Done /\ config.method = "MYPP" /\ ~config.flatPricing /\ ~config.rounding
  /\ config.years >= 3 /\ config.selectedProducts[1] = "utd"
  /\ C17_RatesPositive("utd")
  /\ RLt(RZero, C9_Schedule(1, 0))
  /\ RLt(C9_Schedule(1, 0), C9_Schedule(1, 1))
  /\ RLt(C9_Schedule(1, 1), C9_Schedule(1, 2))

\* no rate entry of the configuration is negative
C18_RatesNonNegative ==
  /\ \A k \in 1..Len(config.rates) : config.rates[k] >= 0
  /\ \A p \in DOMAIN config.productRates :
       \A k \in 1..Len(config.productRates[p]) : config.productRates[p][k] >= 0

\* a single-product deal of utd or ld with non-negative rates, flatPricing
\* and rounding off
C18_Case ==
  /\ NumProducts = 1 /\ (HasUTD \/ HasLD)
  /\ C18_RatesNonNegative /\ ~config.flatPricing /\ ~config.rounding

\* C18: the floor is a minimum for every contract year: in a single-product
\* deal with non-negative rates and flatPricing and rounding off, every
\* year's grossUSD is >= the active standard floor (6500, or 6500/0.95 under
\* WHT), under MYFPI and under MYPP alike.
C18_FloorEveryYear ==
  (Done /\ C18_Case) =>
    \A k \in 1..Len(output.yearlyResults) :
      RLe(C7_StandardFloor, output.yearlyResults[k].grossUSD)

\* what the engine guarantees: the anchor year (the first under MYFPI, the
\* last under MYPP) is at the floor or above, and so is every year of a
\* MYFPI deal
C18_FloorAnchorYear ==
  (Done /\ C18_Case) =>
    /\ RLe(C7_StandardFloor,
           output.yearlyResults[IF config.method = "MYFPI" THEN 1
                                ELSE config.years].grossUSD)
    /\ config.method = "MYFPI" =>
         \A k \in 1..Len(output.yearlyResults) :
           RLe(C7_StandardFloor, output.yearlyResults[k].grossUSD)

\* the failing case: 50 beds of BASE PKG (4000, raised to 6500) over two
\* years of MYPP at 25 % give a first year of 5200
C18_BelowFloorYear ==
  /\ Done /\ C18_Case /\ config.method = "MYPP" /\ config.years = 2
  /\ config.dealType = "NEW_LOGO" /\ ~config.applyWHT
  /\ config.rates = <<25, 25>>
  /\ output.yearlyResults[2].grossUSD = RInt(6500)
  /\ output.yearlyResults[1].grossUSD = RInt(5200)

\* the utd renewal path price of the claim, from the configuration
C19_PathPrice ==
  LET inp == config.productInputs["utd"]
      e   == RInt(inp.expiringAmount)
      u   == config.renewalUpliftRates["utd"]
      x   == IF inp.existingVariant = "" THEN inp.variant ELSE inp.existingVariant
      t   == inp.variant
      standardBase == RMul(e, R(100 + u, 100))
  IN  IF x = t THEN (IF t = "UTDEE" THEN RMul(e, R(108, 100)) ELSE standardBase)
      ELSE IF x = "ANYWHERE" /\ t = "UTDADV" THEN RMul(e, R(100 + u + 8, 100))
      ELSE IF x = "ANYWHERE" /\ t = "UTDEE" THEN RMul(e, R(111, 100))
      ELSE IF x = "UTDADV" /\ t = "UTDEE" THEN RMul(e, R(108, 100))
      ELSE standardBase

\* C19: the utd renewal path price is standardBase for an unchanged variant
\* other than UTDEE, expiring * 1.08 for an unchanged UTDEE whatever the
\* uplift, expiring * (1 + (uplift + 8)/100) for ANYWHERE to UTDADV,
\* expiring * 1.11 for ANYWHERE to UTDEE, expiring * 1.08 for UTDADV to
\* UTDEE and standardBase for any other pair; a missing existingVariant
\* counts as the target.  The pre-floor year-1 price is that path price
\* unless changeInStats is set, when it is the path price or baseNet.
C19_UtdPathPrice ==
  (pc = "step2" /\ config.dealType = "RENEWAL" /\ HasUTD) =>
    IF config.productInputs["utd"].changeInStats
    THEN year1ProductNets["utd"] \in {C19_PathPrice, C10_Expected("utd")}
    ELSE year1ProductNets["utd"] = C19_PathPrice

\* an unchanged UTDEE renewed at an uplift of 5 %: 8 % is applied all the same
C19_Witness ==
  /\ pc = "step2" /\ config.dealType = "RENEWAL" /\ HasUTD
  /\ ~config.productInputs["utd"].changeInStats
  /\ config.productInputs["utd"].variant = "UTDEE"
  /\ config.productInputs["utd"].existingVariant = ""
  /\ config.productInputs["utd"].expiringAmount = 5000
  /\ config.renewalUpliftRates["utd"] = 5
  /\ year1ProductNets["utd"] = RInt(5400)

\* expiring * (1 + uplift/100) of product p
C20_StandardBase(p) ==
  RMul(RInt(config.productInputs[p].expiringAmount),
       R(100 + config.renewalUpliftRates[p], 100))

\* the stats override fires: changeInStats is set and baseNet > path price
C20_Fires ==
  /\ config.productInputs["utd"].changeInStats
  /\ RLt(C19_PathPrice, C10_Expected("utd"))

\* the renewal base of utd: the price absorbed when the variant is unchanged
\* and no override fires, standardBase otherwise
C20_UtdRenewalBase ==
  IF C11_Existing("utd") = config.productInputs["utd"].variant /\ ~C20_Fires
  THEN C19_PathPrice ELSE C20_StandardBase("utd")

\* the same configuration with changeInStats of ld switched
C20_LdStatsSwitched ==
  [config EXCEPT !.productInputs["ld"].changeInStats = ~config.productInputs["ld"].changeInStats]

\* C20: on a utd renewal the pre-floor year-1 price is baseNet when
\* changeInStats is set and baseNet > path price, and the path price
\* otherwise, hence never below the path price; when the override fires the
\* renewal base of utd is standardBase even if the variant is unchanged;
\* changeInStats of ld has no effect on the output.
C20_StatsOverride ==
  /\ (pc = "step2" /\ config.dealType = "RENEWAL" /\ HasUTD) =>
       /\ year1ProductNets["utd"] =
            (IF C20_Fires THEN C10_Expected("utd") ELSE C19_PathPrice)
       /\ RLe(C19_PathPrice, year1ProductNets["utd"])
       /\ totalRenewalBaseForACV =
            RAdd(C20_UtdRenewalBase, IF HasLD THEN C20_StandardBase("ld") ELSE RZero)
  /\ (Done /\ config.dealType = "RENEWAL" /\ HasLD) =>
       output = calculatePricing(C20_LdStatsSwitched)

\* the override fires on an unchanged ANYWHERE: 100 heads give 25900 against
\* a path price of 5250, and the renewal base is the 5250
C20_Witness ==
  /\ pc = "step2" /\ config.dealType = "RENEWAL" /\ NumProducts = 1 /\ HasUTD
  /\ config.productInputs["utd"].changeInStats /\ ~config.applyWHT
  /\ config.productInputs["utd"].variant = "ANYWHERE"
  /\ config.productInputs["utd"].existingVariant = "ANYWHERE"
  /\ config.renewalUpliftRates["utd"] = 5
  /\ year1ProductNets["utd"] = RInt(25900)
  /\ totalRenewalBaseForACV = RInt(5250)

\* the renewal base the rule gives: for utd the pre-floor price when the
\* variant is unchanged and no override fired, standardBase otherwise; for ld
\* standardBase
C21_Expected ==
  IF config.dealType = "RENEWAL"
  THEN RAdd(IF HasUTD THEN C20_UtdRenewalBase ELSE RZero,
            IF HasLD THEN C20_StandardBase("ld") ELSE RZero)
  ELSE RZero

C22_AddsFeature ==
  LET x == C11_Existing("ld")
      t == config.productInputs["ld"].variant
  IN  \/ Includes(t, "FLINK") /\ ~Includes(x, "FLINK")
      \/ Includes(t, "IPE") /\ ~Includes(x, "IPE")

\* C22: on an ld renewal whose target variant differs from the existing one
\* a surcharge above standardBase is added if and only if the target contains
\* a feature tier (FLINK or IPE) the existing variant lacks; a downgrade or a
\* change that adds no feature stays at standardBase, and every
\* feature-adding change over the six catalog variants adds one.
C22_SurchargeIffFeatureAdded ==
  (/\ pc = "step2" /\ config.dealType = "RENEWAL" /\ HasLD
   /\ C11_Existing("ld") # config.productInputs["ld"].variant) =>
    /\ C22_AddsFeature <=> RLt(C20_StandardBase("ld"), year1ProductNets["ld"])
    /\ ~C22_AddsFeature => year1ProductNets["ld"] = C20_StandardBase("ld")

\* the downgrade BASE PKG+FLINK+IPE to BASE PKG+FLINK takes the "Base ->
\* Formulink" branch: 50 beds are charged 600 on top of 9450
C22_DowngradeCharged ==
  /\ pc = "step2" /\ config.dealType = "RENEWAL" /\ NumProducts = 1 /\ HasLD
  /\ ~config.applyWHT /\ config.renewalUpliftRates["ld"] = 5
  /\ config.productInputs["ld"].existingVariant = "BASE PKG+FLINK+IPE"
  /\ config.productInputs["ld"].variant = "BASE PKG+FLINK"
  /\ year1ProductNets["ld"] = RInt(10050)

\* EE-Combo to EE-Combo+FLINK adds FLINK and is charged nothing
C22_ComboUpgradeFree ==
  /\ pc = "step2" /\ config.dealType = "RENEWAL" /\ NumProducts = 1 /\ HasLD
  /\ config.renewalUpliftRates["ld"] = 5
  /\ config.productInputs["ld"].existingVariant = "EE-Combo"
  /\ config.productInputs["ld"].variant = "EE-Combo+FLINK"
  /\ year1ProductNets["ld"] = RInt(9450)

\* the per-bed amount of the claim for the ld variant change of the configuration
C23_PerBed ==
  LET x == C11_Existing("ld")
      t == config.productInputs["ld"].variant
      xF == Includes(x, "FLINK")
      xI == Includes(x, "IPE")
      tF == Includes(t, "FLINK")
      tI == Includes(t, "IPE")
  IN  IF ~xF /\ ~xI /\ tF /\ tI THEN 28
      ELSE IF xF /\ ~xI /\ tI THEN 16
      ELSE IF ~xF /\ tF THEN 12
      ELSE 0

\* the surcharge of the claim, divided by 0.95 when applyWHT is set
C23_Surcharge ==
  LET raw == RInt(config.productInputs["ld"].count * C23_PerBed)
  IN  IF config.applyWHT THEN RDiv(raw, R(95, 100)) ELSE raw

\* C23: the ld add-on surcharge is count * 12 when the upgrade adds FLINK to
\* a variant without it, count * 16 when it adds IPE to a variant that
\* already has FLINK, and count * 28 when it adds both to a variant that has
\* neither; it is divided by 0.95 when applyWHT is true, and standardBase is
\* not grossed up.
C23_SurchargeAmount ==
  (/\ pc = "step2" /\ config.dealType = "RENEWAL" /\ HasLD
   /\ C11_Existing("ld") # config.productInputs["ld"].variant
   /\ C23_PerBed > 0) =>
    year1ProductNets["ld"] = RAdd(C20_StandardBase("ld"), C23_Surcharge)

\* BASE PKG+FLINK to BASE PKG+FLINK+IPE adds IPE only and is charged the
\* 28 of both features: 50 beds pay 1400 on top of 9450
C23_IpeChargedAsBoth ==
  /\ pc = "step2" /\ config.dealType = "RENEWAL" /\ NumProducts = 1 /\ HasLD
  /\ ~config.applyWHT /\ config.renewalUpliftRates["ld"] = 5
  /\ config.productInputs["ld"].existingVariant = "BASE PKG+FLINK"
  /\ config.productInputs["ld"].variant = "BASE PKG+FLINK+IPE"
  /\ year1ProductNets["ld"] = RInt(10850)

\* where the code adds a surcharge, WHT grosses up the surcharge alone: the
\* price is standardBase + count * perBed / 0.95 with perBed one of the
\* three add-on prices
C23_WhtOnSurchargeOnly ==
  (/\ pc = "step2" /\ config.dealType = "RENEWAL" /\ HasLD /\ config.applyWHT
   /\ RLt(C20_StandardBase("ld"), year1ProductNets["ld"])) =>
    \E perBed \in {12, 16, 28} :
      year1ProductNets["ld"] =
        RAdd(C20_StandardBase("ld"),
             RDiv(RInt(config.productInputs["ld"].count * perBed), R(95, 100)))

\* C24: zero inputs give a zero price without error: a product with
\* count = 0, or on a renewal with expiringAmount = 0, has a pre-floor
\* year-1 price of 0 - for new-logo and renewal deals, with or without a
\* variant change or stats flag.
C24_ZeroInputZeroPriceAlways ==
  pc = "step2" =>
    \A p \in DOMAIN year1ProductNets :
      (\/ config.productInputs[p].count = 0
       \/ config.dealType = "RENEWAL" /\ config.productInputs[p].expiringAmount = 0)
        => year1ProductNets[p] = RZero

\* on a renewal without expiring amount a count-based amount is charged: the
\* stats override of utd fires, or ld changes variant with beds to charge
C24_CountBased(p) ==
  \/ /\ p = "utd" /\ config.productInputs[p].changeInStats
     /\ RLt(RZero, C10_Expected("utd"))
  \/ /\ p = "ld" /\ C11_Existing("ld") # config.productInputs["ld"].variant
     /\ config.productInputs["ld"].count > 0

\* C24 (amended): on a new-logo deal a product with count = 0 has a pre-floor
\* year-1 price of 0; on a renewal a product with expiringAmount = 0 has a
\* pre-floor year-1 price of 0 unless it is a utd with changeInStats set and
\* a positive baseNet or an ld with a changed variant and count > 0; a
\* product with count = 0 and expiringAmount = 0 is priced 0 in every case.
\* calculatePricing has a fully populated value on all of these.
C24_ZeroInputZeroPrice ==
  /\ pc = "step1" => C14_Populated(calculatePricing(config))
  /\ pc = "step2" =>
       \A p \in DOMAIN year1ProductNets :
         LET inp == config.productInputs[p]
         IN  /\ (config.dealType = "NEW_LOGO" /\ inp.count = 0)
                  => year1ProductNets[p] = RZero
             /\ (config.dealType = "RENEWAL" /\ inp.expiringAmount = 0 /\ ~C24_CountBased(p))
                  => year1ProductNets[p] = RZero
             /\ (inp.count = 0 /\ inp.expiringAmount = 0) => year1ProductNets[p] = RZero
  /\ Done => C14_Populated(output)

\* a renewal of 100 heads from ANYWHERE to UTDEE without expiring amount and
\* without stats flag is priced 0 before the floor
C24_Witness ==
  /\ pc = "step2" /\ config.dealType = "RENEWAL" /\ NumProducts = 1 /\ HasUTD
  /\ config.productInputs["utd"].count = 100
  /\ config.productInputs["utd"].expiringAmount = 0
  /\ config.productInputs["utd"].variant = "UTDEE"
  /\ config.productInputs["utd"].existingVariant = "ANYWHERE"
  /\ ~config.productInputs["utd"].changeInStats
  /\ year1ProductNets["utd"] = RZero

\* the smallest multiple of step that is >= a / b, for naturals a and b
C25_CeilTo(a, b, step) == ((a + b * step - 1) \div (b * step)) * step

\* C25: with rounding on each product's value in each year is rounded up,
\* never down: for DIRECT to the smallest multiple of 100 USD >= the
\* unrounded value; for FULFILMENT and PARTNER_SOURCED its SAR amount
\* (value * 3.76) is the smallest multiple of 1000 >= the unrounded SAR
\* amount, and the year's grossSAR is then itself a multiple of 1000.
\* Stated of the values the binary64 operations produce on a one-year deal
\* whose unrounded value is the integer year1ProductNets["utd"].
C25_RoundedUp ==
  (Done /\ config \in Binary64Configs) =>
    LET y == yearlyResults[1]
    IN  /\ \A k \in 1..NumProducts :
             LET v == year1ProductNets[config.selectedProducts[k]].w
             IN  IF config.channel = "DIRECT"
                 THEN y.breakdown[k].gross = DblFromInt(C25_CeilTo(v, 1, 100))
                 ELSE y.breakdown[k].grossSAR = C25_CeilTo(v * 376, 100, 1000)
        /\ config.channel # "DIRECT" => y.grossSAR % 1000 = 0

\* 31 heads of ANYWHERE through a reseller: 8029 USD are 30189.04 SAR, rounded
\* up to 31000 SAR and stored as 31000 / 3.76 USD; converted again the year's
\* grossSAR is 31010
C25_NotMultipleOf1000 ==
  /\ Done /\ config \in Binary64Configs /\ config.channel = "FULFILMENT"
  /\ NumProducts = 1
  /\ config.productInputs["utd"].count = 31
  /\ year1ProductNets["utd"] = RInt(8029)
  /\ yearlyResults[1].grossSAR = 31010

\* the part of the rule the binary64 operations keep: the stored value is
\* never below the unrounded one, the DIRECT value is the multiple of 100,
\* and the SAR figure is the multiple of 1000 or 10 above it
C25_NeverBelow64 ==
  (Done /\ config \in Binary64Configs) =>
    LET y == yearlyResults[1]
    IN  \A k \in 1..NumProducts :
          LET v == year1ProductNets[config.selectedProducts[k]].w
          IN  IF config.channel = "DIRECT"
              THEN y.breakdown[k].gross = DblFromInt(C25_CeilTo(v, 1, 100))
              ELSE y.breakdown[k].grossSAR \in {C25_CeilTo(v * 376, 100, 1000),
                                                C25_CeilTo(v * 376, 100, 1000) + 10}

\* in exact arithmetic Step 3.6 does what the rule says: every value of a
\* rounded schedule is the smallest multiple of 100 USD (DIRECT) or of
\* 1000 SAR (otherwise) >= the unrounded value, the year's grossSAR is a
\* multiple of 1000 on the indirect channels, and a flat schedule stays flat
C25_RoundedUpExact ==
  /\ (pc = "step4" /\ config.rounding) =>
       LET before == step3_5(config, step3(config, year1ProductNets))
       IN  \A p \in DOMAIN productSchedules : \A k \in 1..config.years :
             LET a   == productSchedules[p][k]
                 b   == before[p][k]
                 amt == IF config.channel = "DIRECT" THEN a ELSE RMul(a, R(376, 100))
                 raw == IF config.channel = "DIRECT" THEN b ELSE RMul(b, R(376, 100))
                 stp == IF config.channel = "DIRECT" THEN 100 ELSE 1000
             IN  /\ amt.n = 0 /\ amt.w % stp = 0
                 /\ RLe(raw, amt) /\ RLt(RSub(amt, raw), RInt(stp))
                 /\ (config.flatPricing => a = productSchedules[p][1])
  /\ (Done /\ config.rounding /\ config.channel # "DIRECT") =>
       \A k \in 1..config.years :
         /\ output.yearlyResults[k].grossSAR.n = 0
         /\ output.yearlyResults[k].grossSAR.w % 1000 = 0

\* the Floor Enforcer raised the year-1 value of some product
C26_Raised ==
  \E p \in DOMAIN year1ProductNets : RLt(step1(config).nets[p], year1ProductNets[p])

\* C26: floorAdjusted is true on yearlyResults[0] if and only if the Floor
\* Enforcer raised some product's year-1 value, and false on every later
\* year; every later year has an empty notes list.
C26_FlagAndNotesOnYear1 ==
  Done =>
    /\ output.yearlyResults[1].floorAdjusted <=> C26_Raised
    /\ \A k \in 2..config.years :
         /\ ~output.yearlyResults[k].floorAdjusted
         /\ output.yearlyResults[k].notes = <<>>

\* a three-year deal whose floor was applied: flag and note on year 1 only
C26_Witness ==
  /\ Done /\ config.years = 3 /\ C26_Raised
  /\ output.yearlyResults[1].floorAdjusted
  /\ output.yearlyResults[1].notes # <<>>
  /\ ~output.yearlyResults[3].floorAdjusted
  /\ output.yearlyResults[3].notes = <<>>

\* the year-0 net factor f(dealType, channel, 0), as the table of rates
C27_YearZeroFactor ==
  CASE config.channel = "DIRECT" -> R(1, 1)
    [] config.channel = "FULFILMENT" ->
         IF config.dealType = "RENEWAL" THEN R(95, 100) ELSE R(925, 1000)
    [] config.channel = "PARTNER_SOURCED" ->
         IF config.dealType = "RENEWAL" THEN R(90, 100) ELSE R(85, 100)

\* C27: acvUSD = totalGrossUSD / years and netACV = totalNetUSD / years;
\* netRenewalBaseACV = renewalBaseACV * f(dealType, channel, 0) and
\* netUpsellACV = upsellACV * f(dealType, channel, 0): the year-0 net factor
\* is used for both splits whatever the contract length.
C27_SummaryMetrics ==
  Done =>
    /\ RMul(output.acvUSD, RInt(config.years)) = output.totalGrossUSD
    /\ RMul(output.netACV, RInt(config.years)) = output.totalNetUSD
    /\ output.netRenewalBaseACV = RMul(output.renewalBaseACV, C27_YearZeroFactor)
    /\ output.netUpsellACV = RMul(output.upsellACV, C27_YearZeroFactor)

\* the splits of a renewal
\* with upsell: both nets are 95 % of the gross figures on a three-year
\* FULFILMENT renewal
C27_Witness ==
  /\ Done /\ config.years = 3 /\ config.dealType = "RENEWAL"
  /\ config.channel = "FULFILMENT"
  /\ RLt(RZero, output.upsellACV) /\ RLt(RZero, output.renewalBaseACV)
  /\ output.netUpsellACV = RMul(output.upsellACV, R(95, 100))
  /\ output.netRenewalBaseACV = RMul(output.renewalBaseACV, R(95, 100))
  /\ RLt(output.netACV, output.acvUSD)

\* the indices 1..years-1 (counted from 0) at which product p has a rate of -100 %
C28_MinusHundredAt(p) ==
  { j \in 1..(config.years - 1) : RateAt(SpecificRates(config, p), j) = -100 }

\* C28: the projector has no guard on the rate value: under MYPP a rate
\* entry of -100 at an index in 1..years-1 makes the projector divide by
\* zero, so the result for the earlier years is not a finite number and no
\* error is reported; under MYFPI the same entry makes that year and all
\* later years 0.
C28_MinusHundredUnguarded ==
  /\ pc = "step3_5" =>
       \A p \in DOMAIN productSchedules : \A j \in C28_MinusHundredAt(p) :
         IF config.method = "MYPP"
         THEN \A k \in 0..(j - 1) : ~IsFinite(productSchedules[p][k + 1])
         ELSE \A k \in j..(config.years - 1) : productSchedules[p][k + 1] = RZero
  /\ Done =>
       /\ Len(output.yearlyResults) = config.years
       /\ (config.method = "MYPP" /\ C28_MinusHundredAt(config.selectedProducts[1]) # {})
            => /\ ~IsFinite(output.yearlyResults[1].grossUSD)
               /\ ~IsFinite(output.totalGrossUSD)

\* three years under MYPP with -100 % on the second year: the call returns,
\* year 1 is Infinity, years 2 and 3 are 25900
C28_Witness ==
  /\ Done /\ config.method = "MYPP" /\ config.years = 3 /\ NumProducts = 1
  /\ ~config.flatPricing /\ ~config.rounding
  /\ config.rates = <<0, -100, 0>>
  /\ output.yearlyResults[1].grossUSD = RInf(1)
  /\ output.yearlyResults[2].grossUSD = RInt(25900)
  /\ output.yearlyResults[3].grossUSD = RInt(25900)
  /\ output.acvUSD = RInf(1)

\* the sum of breakdown[].grossSAR of a year whose SAR figures are integers
C29_PartsSum64 ==
  LET y == yearlyResults[1]
      RECURSIVE upTo(_)
      upTo(k) == IF k = 0 THEN 0 ELSE upTo(k - 1) + y.breakdown[k].grossSAR
  IN  upTo(NumProducts)

\* C29: per-product SAR figures and the year's SAR figure are rounded
\* independently: in every year grossSAR <= the sum of breakdown[].grossSAR
\* over the products, the difference is a multiple of 10 smaller than
\* 10 * (number of selected products), and the two are equal when one
\* product is selected.  Stated of the figures the binary64 operations
\* produce on a one-year deal.
C29_YearSarAtMostParts ==
  (Done /\ config \in Binary64Configs) =>
    LET diff == C29_PartsSum64 - yearlyResults[1].grossSAR
    IN  /\ diff >= 0
        /\ diff % 10 = 0
        /\ diff < 10 * NumProducts
        /\ NumProducts = 1 => diff = 0

\* 3 heads of ANYWHERE and 50 beds of BASE PKG through a reseller with
\* rounding on: the products show 3000 and 16000 SAR, the year 19010
C29_YearAboveParts ==
  /\ Done /\ config \in Binary64Configs /\ config.channel = "FULFILMENT"
  /\ NumProducts = 2 /\ config.productInputs["utd"].count = 3
  /\ yearlyResults[1].breakdown[1].grossSAR = 3000
  /\ yearlyResults[1].breakdown[2].grossSAR = 16000
  /\ yearlyResults[1].grossSAR = 19010

\* in exact arithmetic the rule holds in every year of every deal
C29_YearSarAtMostPartsExact ==
  Done =>
    \A k \in 1..config.years :
      LET y    == output.yearlyResults[k]
          diff == RSub(RSum([j \in 1..NumProducts |-> y.breakdown[j].grossSAR]), y.grossSAR)
      IN  /\ diff.n = 0 /\ diff.w >= 0 /\ diff.w % 10 = 0
          /\ diff.w < 10 * NumProducts
          /\ NumProducts = 1 => diff.w = 0

\* a two-product year whose figures differ in exact arithmetic
C29_DifferExact ==
  /\ Done /\ NumProducts = 2
  /\ RLt(output.yearlyResults[1].grossSAR,
         RAdd(output.yearlyResults[1].breakdown[1].grossSAR,
              output.yearlyResults[1].breakdown[2].grossSAR))

(***************************************************************************)
(* C30: the UTDEE minimum head count in the form                           *)
(***************************************************************************)
C30_BecameUtdee ==
  /\ history # <<>>
  /\ history[1].variantBefore # "UTDEE"
  /\ form.productInputs.utd.variant = "UTDEE"

\* C30: after a handleInputChange call that leaves the utd target variant at
\* UTDEE when it was not UTDEE before the call, whether the call set 'variant'
\* or set 'existingVariant' on a renewal, the utd count is at least 150.
C30_UtdeeMinCount ==
  (pc = "form" /\ C30_BecameUtdee) => form.productInputs.utd.count >= 150

\* The case of C30 that fails: on a renewal, picking UTDEE as the existing
\* variant makes the target UTDEE and leaves a head count below 150.
C30_RenewalPathBelowMin ==
  /\ pc = "form"
  /\ C30_BecameUtdee
  /\ history[1].field = "existingVariant"
  /\ form.dealType = "RENEWAL"
  /\ form.productInputs.utd.count < 150

\* The case of C30 that holds: picking UTDEE in the target variant select
\* raises a head count below 150 to 150.
C30_VariantPathMinCount ==
  (pc = "form" /\ C30_BecameUtdee /\ history[1].field = "variant")
    => form.productInputs.utd.count >= 150

C30_VariantPathReached ==
  /\ pc = "form"
  /\ C30_BecameUtdee
  /\ history[1].field = "variant"
  /\ form.productInputs.utd.count = 150

====
